---- MODULE Spec2Model ----
(***************************************************************************)
(* Control plane of the Janus gateway core (janus.c): the session table,   *)
(* the per-session handle table and event queue, the request handler run   *)
(* by one thread per connection, the long-poll notifier, the plugin        *)
(* callback push_event and the shutdown signal.                            *)
(*                                                                         *)
(* janus.c takes no lock anywhere (session->mutex is initialised and never *)
(* locked), so every step below that touches shared state is a separate    *)
(* action and the threads interleave between them.                         *)
(***************************************************************************)
EXTENDS Integers, Sequences, FiniteSets, TLC

VARIABLES
    sessions,   \* GHashTable sessions: session id -> session record (NULL = absent)
    srec,       \* the janus_session records ever calloc'ed
    hrec,       \* the janus_ice_handle records ever calloc'ed
    psess,      \* videocall plugin: state of handle->plugin_handle per handle token
    ncreate,    \* number of create_session calls the plugin received, per token
    ndestroy,   \* number of destroy_session calls the plugin received, per token
    stop,       \* static gint stop
    mainpc,     \* position of main(): serving, or past the while(!stop) loop
    pc,         \* position of each connection thread in janus_ws_handler
    req,        \* the request each connection thread is serving
    loc,        \* local variables of each connection thread
    resp,       \* the response each connection thread queued
    nextEv,     \* number of events push_event has enqueued so far
    evs,        \* history: the session record each event was enqueued on
    delivered,  \* history: number of long-poll responses that carried each event
    lastret,    \* history: per session record, newest event a finished GET returned
    overlapped, \* history: per session record, two GETs were in progress at once
    serial,     \* TRUE when requests are issued one after the other
    workload,   \* the requests the clients send in this run
    hist,       \* history (serial runs): a create or attach and what undid it
    nextMsg,    \* videocall plugin: number of janus_videocall_message calloc'ed
    mrec,       \* videocall plugin: the janus_videocall_message records
    pmsgs,      \* videocall plugin: GQueue *messages
    hthread,    \* videocall plugin: position and locals of janus_videocall_handler
    evinfo,     \* payload of each event: sender handle, transaction, causing message
    pushret,    \* history: the last janus_push_event call and what it returned
    vsess,      \* videocall plugin: username and peer of each janus_videocall_session
    users,      \* videocall plugin: GHashTable *sessions, username -> session
    media,      \* per handle: how far its ICE and media setup has come (ice.c)
    relay,      \* history: the last relay_rtp and relay_rtcp call and its outcome
    plugdir,    \* the entries of the plugins folder, in the order of readdir
    nread,      \* main(): how many entries of the folder the loop has read
    registry,   \* static GHashTable *plugins: package -> the entry it came from
    ninit,      \* history: how often the init of each entry's plugin was called
    url,        \* the URL of the last request whose path was parsed
    route,      \* what janus_ws_handler made of that URL
    ice,        \* per handle: local ICE setups, candidates-done, remote candidates
    steps,      \* history: the SDP steps the last message request went through
    pwait,      \* the plugin thread inside a janus_push_event call with an SDP
    conn,       \* one connection: *ptr (janus_http_msg), the rounds and responses
    inq,        \* the threads that are inside an operation on a session's queue
    late        \* history: iterations each polling loop began with stop set

vars == <<sessions, srec, hrec, psess, ncreate, ndestroy, stop, mainpc, pc, req,
          loc, resp, nextEv, evs, delivered, lastret, overlapped, serial, workload,
          hist, nextMsg, mrec, pmsgs, hthread, evinfo, pushret, vsess, users,
          media, relay, plugdir, nread, registry, ninit, url, route,
          ice, steps, pwait, conn, inq, late>>

\* the state of the videocall plugin and the event payloads
pvars == <<nextMsg, mrec, pmsgs, hthread, evinfo, pushret, vsess, users>>

\* the state of the media plane
mvars == <<media, relay>>

\* the plugins folder and the registry main() fills from it
lvars == <<plugdir, nread, registry, ninit>>

\* the URL of a request and where it leads
uvars == <<url, route>>

\* the SDP negotiation, the connection context, the queue operations in
\* progress and the polling loops
xvars == <<ice, steps, pwait, conn, inq, late>>

(***************************************************************************)
(* Bounds of the model.                                                    *)
(***************************************************************************)
NumThreads == 2     \* connection threads (MHD_USE_THREAD_PER_CONNECTION)
MaxSessionId == 2   \* g_random_int() draws from 0..MaxSessionId
MaxSessions == 2    \* janus_session records calloc'ed over a run
MaxHandleId == 2    \* handle ids drawn from 0..MaxHandleId
MaxHandles == 2     \* janus_ice_handle records calloc'ed over a run
MaxEvents == 3      \* events push_event enqueues over a run
PollCeiling == 2    \* long-poll ceiling in sleep quanta (30 s / 100 ms in janus.c)
MaxMessages == 2    \* janus_videocall_message records calloc'ed over a run
MaxTransactions == 2 \* distinct transaction strings the clients use
MaxUsernames == 2   \* distinct usernames the clients register and call
MaxPlugins == 2     \* entries of the plugins folder
MaxUrlLen == 8      \* characters of a request URL
MaxStreams == 2     \* media streams of a session description (audio, video)
MaxLocal == 2       \* janus_ice_setup_local calls counted per handle
MaxLate == 2        \* iterations of a polling loop counted after the stop
MaxChunks == 2      \* chunks of one POST body

NULL == 0
Threads == 1..NumThreads
SessionIds == 1..MaxSessionId
SRefs == 1..MaxSessions
HandleIds == 1..MaxHandleId
HRefs == 1..MaxHandles
Events == 1..MaxEvents
Messages == 1..MaxMessages
Transactions == 1..MaxTransactions
Usernames == 1..MaxUsernames

VIDEOCALL == "janus.plugin.videocall"
\* static GHashTable *plugins, filled by main() before the web server starts
plugins == {VIDEOCALL}
\* package names a client may put in an attach request
Packages == {VIDEOCALL, "does.not.exist"}

\* the methods and callbacks of a plugin descriptor
Callbacks == {"init", "destroy", "get_version", "get_version_string",
              "get_description", "get_name", "get_package", "create_session",
              "handle_message", "setup_media", "incoming_rtp", "incoming_rtcp",
              "hangup_media", "destroy_session"}
\* package names get_package of a loaded plugin may return
LoadPackages == {VIDEOCALL, "janus.plugin.other"}
\* An entry of the plugins folder: a name that does not end in .so, a file
\* dlopen refuses, one without the symbol create, one whose create returns
\* NULL, or one whose create returns a descriptor, with its package and the
\* member it leaves NULL, if any.
Entries ==
    [kind : {"notso", "noload", "nocreate", "nodescriptor"},
     package : {VIDEOCALL}, missing : {"none"}]
    \cup [kind : {"descriptor"}, package : LoadPackages,
          missing : Callbacks \cup {"none"}]
PluginSlots == 1..MaxPlugins

Range(s) == {s[i] : i \in 1..Len(s)}

\* a janus_session that was never calloc'ed
NoSession == [alloc |-> FALSE, session_id |-> 0, messages |-> <<>>, destroy |-> 0,
              ice_handles |-> [i \in HandleIds |-> NULL]]
\* a janus_ice_handle that was never calloc'ed
NoHandle == [state |-> "free", handle_id |-> 0, session |-> NULL, app |-> "",
             app_handle |-> NULL]
\* the body of a request that is no message for the videocall plugin
NoBody == [request |-> "", username |-> 0]
NoReq == [method |-> "", verb |-> "", sid |-> 0, hid |-> 0, plugin |-> "",
          envelope |-> "", transaction |-> NULL, body |-> "", jsep |-> "",
          message |-> NoBody]
NoLoc == [sess |-> NULL, hnd |-> NULL, id |-> 0, node |-> NULL, nxt |-> NULL,
          elapsed |-> 0, floor |-> 0, preS |-> [i \in SessionIds |-> NULL],
          preH |-> [i \in HandleIds |-> NULL], pre |-> <<>>]
NoResp == [kind |-> "none", code |-> "", val |-> 0]
\* a janus_videocall_message that was never calloc'ed
NoMsg == [handle |-> NULL, transaction |-> NULL, message |-> NoBody,
          sdp |-> FALSE]
\* a janus_videocall_session with no username and no call
NoUser == [username |-> 0, peer |-> NULL]
\* an event payload that was never built
NoEvent == [sender |-> NULL, transaction |-> NULL, cause |-> NULL]
\* no janus_push_event call was made yet
NoCall == [kind |-> "", sdp |-> "", ret |-> ""]
\* no URL was parsed yet
NoRoute == [status |-> "", sid |-> 0, hid |-> 0]
\* the two relay callbacks of the gateway
\* a handle before any session description: janus_ice_setup_local was not
\* called, no candidates are gathered, no remote candidate was submitted and
\* janus_sdp_parse has not filled the media context
NoIce == [nlocal |-> 0, offer |-> -1, streams_num |-> 0, cdone |-> 0,
          parsed |-> FALSE, remote |-> {}]
\* the plugin thread is in no janus_push_event call
NoWait == [pc |-> "idle", handle |-> NULL, type |-> "", sdp |-> "", ret |-> ""]
\* *ptr is NULL: the connection has no request in progress.  A context holds
\* the method and path of the request, the chunks of the body that MHD has
\* still to hand over (todo) and has handed over (sent), msg->payload and
\* msg->len, the MHD_queue_response calls made before the dispatch (queued,
\* codes), the value the last call returned, the dispatches made and the
\* session table the first call found (pre).
NoConn == [pc |-> "idle", round |-> 0, method |-> "", path |-> "",
           todo |-> <<>>, sent |-> <<>>, payload |-> <<>>, len |-> 0,
           queued |-> 0, codes |-> <<>>, ret |-> "", dispatched |-> 0,
           pre |-> [i \in SessionIds |-> NULL]]
\* the polling loops: janus_ws_notifier, the candidates-done wait of
\* janus_handle_sdp and janus_videocall_handler
Loops == {"longpoll", "candidates", "worker"}

RelayKinds == {"rtp", "rtcp"}
\* no relay call of a kind was made yet
NoRelay == [called |-> FALSE, handle |-> NULL, state |-> "", forwarded |-> FALSE]
\* janus_videocall_handler between two messages
NoHandler == [pc |-> "wait", msg |-> NULL, nxt |-> NULL, peer |-> FALSE]

HttpResp(status) == [kind |-> "http", code |-> "", val |-> status]
\* status 302 with a Location header that names the path of a session
RedirectResp(session_path) == [kind |-> "http", code |-> "", val |-> 302,
                               location |-> session_path]
ErrorResp(code) == [kind |-> "error", code |-> code, val |-> 0]
SuccessResp(id) == [kind |-> "success", code |-> "", val |-> id]
EventResp(e) == [kind |-> "event", code |-> "", val |-> e]
KeepAlive == [kind |-> "keepalive", code |-> "", val |-> 0]
\* the ack of a message request, with its transaction (lines 693-700)
AckResp(transaction) == [kind |-> "ack", code |-> "", val |-> transaction]

(***************************************************************************)
(* Library operations, as janus.c uses them.                               *)
(***************************************************************************)
\* g_hash_table_lookup(sessions, id)
janus_session_find(id) == sessions[id]

\* the test of the draw loop of janus_session_create: the id is kept when it
\* is not 0 and janus_session_find does not know it
DrawnIdIsFree(id) == id # 0 /\ janus_session_find(id) = NULL

\* g_hash_table_insert(sessions, id, session): replaces the value of a key
\* that is already present
g_hash_table_insert(tbl, id, r) == [tbl EXCEPT ![id] = r]

\* g_hash_table_remove(sessions, id)
g_hash_table_remove(tbl, id) == [tbl EXCEPT ![id] = NULL]

\* faulty variant: the event is pushed at the head of the queue
g_queue_push_head(q, e) == <<e>> \o q

\* g_queue_push_tail(session->messages, notification)
g_queue_push_tail(q, e) == Append(q, e)

\* g_queue_pop_head, first half: node = queue->head and the node->next it reads
g_queue_head(q) == IF q = <<>> THEN NULL ELSE q[1]
g_queue_head_next(q) == IF Len(q) >= 2 THEN q[2] ELSE NULL

Suffix(q, e) == LET i == CHOOSE j \in 1..Len(q) : q[j] = e
                IN SubSeq(q, i, Len(q))

\* g_queue_pop_head, second half: queue->head = node->next, and
\* queue->tail = NULL when that is NULL.  GQueue is not thread-safe and the
\* caller holds no lock, so the queue may have changed since the first half:
\*  - nxt = NULL: head and tail are cleared, whatever was appended meanwhile
\*    is unlinked with them;
\*  - nxt is still queued: the queue now starts at nxt;
\*  - nxt was unlinked and freed by another thread: head points to freed
\*    memory; the queue is left as it is, emptied, or restarts at the stale
\*    node.
g_queue_unlink(q, nxt) ==
    IF nxt = NULL THEN {<<>>}
    ELSE IF nxt \in Range(q) THEN {Suffix(q, nxt)}
    ELSE {q, <<>>, <<nxt>> \o q}

FreeSRefs == {r \in SRefs : ~srec[r].alloc}
FreeHRefs == {h \in HRefs : hrec[h].state = "free"}
NewRef(S) == CHOOSE r \in S : \A x \in S : r <= x

Max(a, b) == IF a >= b THEN a ELSE b

OthersIdle(t) == \A u \in Threads \ {t} : pc[u] = "idle"

\* positions of a long-poll GET between finding its session and responding
GetStates == {"get_pop", "get_unlink", "notif_find", "notif_loop", "notif_unlink"}

\* History of the serial runs.  A successful create, or a successful attach,
\* is remembered with the table it found; the request that follows it either
\* undoes it (the destroy of that session, the detach of that handle), which
\* is noted, or ends the memory.  In the dispatch runs an attach that
\* ended with PLUGIN_ATTACH and a detach that ended with PLUGIN_DETACH are
\* remembered until the next request is answered.
NoHist == [law |-> "", sid |-> 0, id |-> 0, ref |-> NULL, undone |-> FALSE,
           preS |-> [i \in SessionIds |-> NULL],
           preH |-> [i \in HandleIds |-> NULL]]

\* no session description was exchanged, no request is half read, no thread
\* is inside a queue operation and no loop has run since the stop
QuietInit ==
    /\ ice = [h \in HRefs |-> NoIce]
    /\ steps = <<>>
    /\ pwait = NoWait
    /\ conn = NoConn
    /\ inq = {}
    /\ late = [l \in Loops |-> 0]

\* janus_videocall_init: the message queue is empty and the thread started
\* main() has read a folder that holds the videocall plugin
LoaderDone ==
    /\ plugdir = [i \in PluginSlots |->
                    IF i = 1
                    THEN [kind |-> "descriptor", package |-> VIDEOCALL,
                          missing |-> "none"]
                    ELSE [kind |-> "notso", package |-> VIDEOCALL,
                          missing |-> "none"]]
    /\ nread = MaxPlugins
    /\ registry = [p \in LoadPackages |-> IF p = VIDEOCALL THEN 1 ELSE NULL]
    /\ ninit = [i \in PluginSlots |-> IF i = 1 THEN 1 ELSE 0]

PluginInit ==
    /\ nextMsg = 0
    /\ mrec = [m \in Messages |-> NoMsg]
    /\ pmsgs = <<>>
    /\ hthread = NoHandler
    /\ evinfo = [e \in Events |-> NoEvent]
    /\ pushret = NoCall
    /\ vsess = [h \in HRefs |-> NoUser]
    /\ users = [u \in Usernames |-> NULL]
    /\ media = [h \in HRefs |-> "none"]
    /\ relay = [k \in RelayKinds |-> NoRelay]
    /\ LoaderDone
    /\ url = <<>>
    /\ route = NoRoute
    /\ QuietInit

(***************************************************************************)
(* Initial state: main() has loaded the plugins, created the empty session *)
(* table and started the web server.                                       *)
(***************************************************************************)
InitCommon ==
    /\ sessions = [i \in SessionIds |-> NULL]
    /\ srec = [r \in SRefs |-> NoSession]
    /\ hrec = [h \in HRefs |-> NoHandle]
    /\ psess = [h \in HRefs |-> "none"]
    /\ ncreate = [h \in HRefs |-> 0]
    /\ ndestroy = [h \in HRefs |-> 0]
    /\ stop = 0
    /\ mainpc = "serve"
    /\ pc = [t \in Threads |-> "idle"]
    /\ req = [t \in Threads |-> NoReq]
    /\ loc = [t \in Threads |-> NoLoc]
    /\ resp = [t \in Threads |-> NoResp]
    /\ nextEv = 0
    /\ evs = [e \in Events |-> NULL]
    /\ delivered = [e \in Events |-> 0]
    /\ lastret = [r \in SRefs |-> 0]
    /\ overlapped = [r \in SRefs |-> FALSE]
    /\ hist = NoHist
    /\ PluginInit

\* main() is about to read the plugins folder, which holds any entries
LoaderInit ==
    /\ sessions = [i \in SessionIds |-> NULL]
    /\ srec = [r \in SRefs |-> NoSession]
    /\ hrec = [h \in HRefs |-> NoHandle]
    /\ psess = [h \in HRefs |-> "none"]
    /\ ncreate = [h \in HRefs |-> 0]
    /\ ndestroy = [h \in HRefs |-> 0]
    /\ stop = 0
    /\ mainpc = "load"
    /\ pc = [t \in Threads |-> "idle"]
    /\ req = [t \in Threads |-> NoReq]
    /\ loc = [t \in Threads |-> NoLoc]
    /\ resp = [t \in Threads |-> NoResp]
    /\ nextEv = 0
    /\ evs = [e \in Events |-> NULL]
    /\ delivered = [e \in Events |-> 0]
    /\ lastret = [r \in SRefs |-> 0]
    /\ overlapped = [r \in SRefs |-> FALSE]
    /\ hist = NoHist
    /\ nextMsg = 0
    /\ mrec = [m \in Messages |-> NoMsg]
    /\ pmsgs = <<>>
    /\ hthread = NoHandler
    /\ evinfo = [e \in Events |-> NoEvent]
    /\ pushret = NoCall
    /\ vsess = [h \in HRefs |-> NoUser]
    /\ users = [u \in Usernames |-> NULL]
    /\ media = [h \in HRefs |-> "none"]
    /\ relay = [k \in RelayKinds |-> NoRelay]
    /\ plugdir \in [PluginSlots -> Entries]
    /\ nread = 0
    /\ registry = [p \in LoadPackages |-> NULL]
    /\ ninit = [i \in PluginSlots |-> 0]
    /\ url = <<>>
    /\ route = NoRoute
    /\ QuietInit
    /\ serial = TRUE
    /\ workload = "load"

\* clients create, attach, detach and destroy, on any thread at any time
Init == InitCommon /\ serial = FALSE /\ workload = "concurrent"

\* the same requests, each sent when the one before it has been answered
SeqInit == InitCommon /\ serial = TRUE /\ workload = "lifecycle"

\* every request, each sent when the one before it has been answered
DispatchInit == InitCommon /\ serial = TRUE /\ workload = "dispatch"

\* The state after a create that drew id 1 and two attaches to the videocall
\* plugin that drew handle ids 1 and 2, and the first has registered a
\* username with the plugin.
AttachedInit ==
    /\ sessions = [i \in SessionIds |-> IF i = 1 THEN 1 ELSE NULL]
    /\ srec = [r \in SRefs |->
                IF r = 1
                THEN [NoSession EXCEPT !.alloc = TRUE, !.session_id = 1,
                                       !.ice_handles =
                                          [i \in HandleIds |->
                                              IF i \in {1, 2} THEN i ELSE NULL]]
                ELSE NoSession]
    /\ hrec = [h \in HRefs |->
                IF h \in {1, 2}
                THEN [state |-> "live", handle_id |-> h, session |-> 1,
                      app |-> VIDEOCALL, app_handle |-> h]
                ELSE NoHandle]
    /\ psess = [h \in HRefs |-> IF h \in {1, 2} THEN "live" ELSE "none"]
    /\ ncreate = [h \in HRefs |-> IF h \in {1, 2} THEN 1 ELSE 0]
    /\ ndestroy = [h \in HRefs |-> 0]
    /\ stop = 0
    /\ mainpc = "serve"
    /\ pc = [t \in Threads |-> "idle"]
    /\ req = [t \in Threads |-> NoReq]
    /\ loc = [t \in Threads |-> NoLoc]
    /\ resp = [t \in Threads |-> NoResp]
    /\ nextEv = 0
    /\ evs = [e \in Events |-> NULL]
    /\ delivered = [e \in Events |-> 0]
    /\ lastret = [r \in SRefs |-> 0]
    /\ overlapped = [r \in SRefs |-> FALSE]
    /\ hist = NoHist
    /\ nextMsg = 0
    /\ mrec = [m \in Messages |-> NoMsg]
    /\ pmsgs = <<>>
    /\ hthread = NoHandler
    /\ evinfo = [e \in Events |-> NoEvent]
    /\ pushret = NoCall
    /\ vsess = [h \in HRefs |-> IF h = 1 THEN [NoUser EXCEPT !.username = 1]
                                ELSE NoUser]
    /\ users = [u \in Usernames |-> IF u = 1 THEN 1 ELSE NULL]
    /\ media = [h \in HRefs |-> "none"]
    /\ relay = [k \in RelayKinds |-> NoRelay]
    /\ LoaderDone
    /\ url = <<>>
    /\ route = NoRoute
    /\ QuietInit

\* the clients send messages to the plugin, one at a time
MsgInit == AttachedInit /\ serial = TRUE /\ workload = "message"

\* the clients send broken envelopes and messages without a body
EnvelopeInit == AttachedInit /\ serial = TRUE /\ workload = "envelope"

\* the clients send requests on every URL
UrlInit == InitCommon /\ serial = TRUE /\ workload = "url"

\* the clients register, call and detach
TeardownInit == AttachedInit /\ serial = TRUE /\ workload = "teardown"

\* the clients negotiate media and detach, the plugin relays packets
MediaInit == AttachedInit /\ serial = TRUE /\ workload = "media"

\* the clients send messages with session descriptions, the plugin pushes
\* events with session descriptions, the agent gathers candidates
SdpInit == AttachedInit /\ serial = TRUE /\ workload = "sdp"
LockInit == AttachedInit /\ serial = TRUE /\ workload = "lock"
PeerInit == AttachedInit /\ serial = TRUE /\ workload = "peer"
HttpInit == InitCommon /\ serial = TRUE /\ workload = "http"

\* the clients long-poll, the plugin pushes offers, its thread waits for
\* messages, and the gateway is told to stop
StopInit == AttachedInit /\ serial = TRUE /\ workload = "stop"

\* the plugin pushes events with session descriptions, the clients send
\* offers and the agent gathers candidates
EventInit == AttachedInit /\ serial = TRUE /\ workload = "event"

\* the clients send each kind of message to the plugin, one at a time
WorkerInit == AttachedInit /\ serial = TRUE /\ workload = "worker"

\* the plugin pushes events of every kind and the clients long-poll, one GET
\* at a time
PushInit == AttachedInit /\ serial = TRUE /\ workload = "push"

\* The state after a create that drew id 1 and an attach to the videocall
\* plugin that drew handle id 1; from here the clients long-poll and the
\* plugin pushes events.
PollInit ==
    /\ sessions = [i \in SessionIds |-> IF i = 1 THEN 1 ELSE NULL]
    /\ srec = [r \in SRefs |->
                IF r = 1
                THEN [NoSession EXCEPT !.alloc = TRUE, !.session_id = 1,
                                       !.ice_handles[1] = 1]
                ELSE NoSession]
    /\ hrec = [h \in HRefs |->
                IF h = 1
                THEN [state |-> "live", handle_id |-> 1, session |-> 1,
                      app |-> VIDEOCALL, app_handle |-> 1]
                ELSE NoHandle]
    /\ psess = [h \in HRefs |-> IF h = 1 THEN "live" ELSE "none"]
    /\ ncreate = [h \in HRefs |-> IF h = 1 THEN 1 ELSE 0]
    /\ ndestroy = [h \in HRefs |-> 0]
    /\ stop = 0
    /\ mainpc = "serve"
    /\ pc = [t \in Threads |-> "idle"]
    /\ req = [t \in Threads |-> NoReq]
    /\ loc = [t \in Threads |-> NoLoc]
    /\ resp = [t \in Threads |-> NoResp]
    /\ nextEv = 0
    /\ evs = [e \in Events |-> NULL]
    /\ delivered = [e \in Events |-> 0]
    /\ lastret = [r \in SRefs |-> 0]
    /\ overlapped = [r \in SRefs |-> FALSE]
    /\ hist = NoHist
    /\ PluginInit
    /\ serial = FALSE
    /\ workload = "poll"

HistAfter(rq, lc, r, ref) ==
    IF r.kind = "success" /\ rq.verb = "create" /\ rq.sid = 0
    THEN [NoHist EXCEPT !.law = "create", !.id = r.val, !.ref = ref,
                        !.preS = lc.preS]
    ELSE IF r.kind = "success" /\ rq.verb = "attach"
    THEN [NoHist EXCEPT !.law = "attach", !.sid = rq.sid, !.id = r.val,
                        !.ref = ref, !.preH = lc.preH]
    ELSE IF /\ r.kind = "success" /\ rq.verb = "destroy" /\ hist.law = "create"
            /\ ~hist.undone /\ rq.sid = hist.id
    THEN [hist EXCEPT !.undone = TRUE]
    ELSE IF /\ r.kind = "success" /\ rq.verb = "detach" /\ hist.law = "attach"
            /\ ~hist.undone /\ rq.sid = hist.sid /\ rq.hid = hist.id
    THEN [hist EXCEPT !.undone = TRUE]
    ELSE IF workload = "dispatch" /\ r = ErrorResp("PLUGIN_DETACH")
    THEN [NoHist EXCEPT !.law = "detach", !.sid = rq.sid, !.id = rq.hid,
                        !.ref = ref]
    ELSE IF workload = "dispatch" /\ r = ErrorResp("PLUGIN_ATTACH")
    THEN [NoHist EXCEPT !.law = "attach failed", !.sid = rq.sid, !.id = lc.id,
                        !.ref = ref]
    ELSE NoHist

\* the response is queued: the handler returns
FinishAs(t, rq, lc, r, ref) ==
    /\ pc' = [pc EXCEPT ![t] = "responded"]
    /\ resp' = [resp EXCEPT ![t] = r]
    /\ hist' = IF serial THEN HistAfter(rq, lc, r, ref) ELSE hist

Finish(t, r, ref) == FinishAs(t, req[t], loc[t], r, ref)

Goto(t, p) ==
    /\ pc' = [pc EXCEPT ![t] = p]
    /\ UNCHANGED <<resp, hist>>

(***************************************************************************)
(* janus_ws_handler, up to its first access to shared state: the method,   *)
(* the path and, on the base path, the verb.                               *)
(***************************************************************************)
Verbs == {"create", "attach", "destroy", "detach", "message", "nope"}

\* what json_loads and the lookups of "transaction" and "janus" make of the
\* body of a POST (lines 451-472 and 327-349)
Envelopes == {"ok", "invalid", "nonobject", "notransaction", "nojanus"}

\* an envelope that is complete but for its "transaction", which is the
\* string "": json_is_string holds of it
EMPTY_TRANSACTION == "emptytransaction"

\* the "body" member of a message request (lines 591-600)
Bodies == {"object", "missing", "nonobject"}

\* the "jsep" member of a message request (lines 602-688)
Jseps == {"none", "nonobject", "notype", "unknowntype", "nosdp", "invalidsdp",
          "offer", "answer"}

\* the runs that keep track of the ICE state of the handles
SdpWorkloads == {"sdp", "event", "stop"}

\* session descriptions of the negotiation runs: an offer with an audio and a
\* video line, and an offer and an answer that janus_sdp_preparse accepts and
\* janus_sdp_anonymize refuses
SdpJseps == {"offer-av", "offer-noanonymize", "answer-noanonymize"}

\* lines 624-634: the type of a jsep, "" when it has none the gateway knows
JsepType(j) ==
    IF j \in {"offer", "offer-av", "offer-noanonymize"} THEN "offer"
    ELSE IF j \in {"answer", "answer-noanonymize"} THEN "answer"
    ELSE ""

\* line 646: the audio and video lines janus_sdp_preparse counts
JsepStreams(j) == IF j = "offer-av" THEN 2 ELSE 1

\* line 676: janus_sdp_anonymize returns a string
JsepAnonymizes(j) == j \notin {"offer-noanonymize", "answer-noanonymize"}

\* the "request" and "username" of a message body, as the videocall plugin
\* reads them; "set" stands for the requests that only get a reply ("list",
\* "set" and those the plugin does not know)
PluginVerbs == {"register", "call", "accept", "set", "hangup"}

PluginRequests ==
    [request : {"register", "call"}, username : Usernames]
    \cup [request : PluginVerbs \ {"register", "call"}, username : {0}]

\* The requests: those of the session and handle lifecycle, those whose
\* envelope is broken, the messages to a plugin, those whose transaction
\* is the empty string, and the messages of the negotiation runs.  What the handler never
\* reads of a request has one value.
Requests ==
    [method : {"GET", "POST"}, verb : Verbs \ {"message"}, sid : 0..MaxSessionId,
     hid : 0..MaxHandleId, plugin : Packages, envelope : {"ok"},
     transaction : {1}, body : {"object"}, jsep : {"none"}, message : {NoBody}]
    \cup
    [method : {"POST"}, verb : {"nope"}, sid : 0..MaxSessionId,
     hid : 0..MaxHandleId, plugin : {VIDEOCALL}, envelope : Envelopes \ {"ok"},
     transaction : {1}, body : {"object"}, jsep : {"none"}, message : {NoBody}]
    \cup
    [method : {"POST"}, verb : {"message"}, sid : 0..MaxSessionId,
     hid : 0..MaxHandleId, plugin : {VIDEOCALL}, envelope : {"ok"},
     transaction : Transactions, body : Bodies, jsep : Jseps, message : {NoBody}]
    \cup
    [method : {"POST"}, verb : {"message"}, sid : SessionIds,
     hid : HandleIds, plugin : {VIDEOCALL}, envelope : {"ok"},
     transaction : Transactions, body : {"object"}, jsep : Jseps,
     message : PluginRequests]
    \cup
    [method : {"POST"}, verb : {"create", "destroy", "nope"},
     sid : 0..MaxSessionId, hid : 0..MaxHandleId, plugin : {VIDEOCALL},
     envelope : {EMPTY_TRANSACTION}, transaction : {1}, body : {"object"},
     jsep : {"none"}, message : {NoBody}]
    \cup
    [method : {"POST"}, verb : {"message"}, sid : {1}, hid : HandleIds,
     plugin : {VIDEOCALL}, envelope : {"ok"}, transaction : {1},
     body : {"object"}, jsep : SdpJseps,
     message : [request : {"set"}, username : {0}]]

\* the requests a client can send: a handle id needs a session id before it,
\* a GET carries no verb, only attach carries a plugin, a message without a
\* body object is not read further, and only the body of a message on a
\* handle path is for the plugin
WellFormed(r) ==
    /\ r.hid # 0 => r.sid # 0
    /\ r.method = "GET" => r.verb = "nope"
    /\ r.verb # "attach" => r.plugin = VIDEOCALL
    /\ r.body # "object" => r.jsep = "none"
    /\ (r.verb = "message" /\ r.hid # 0 /\ r.body = "object")
            <=> r.message # NoBody

\* the requests a client can send
ClientRequests == {r \in Requests : WellFormed(r)}

\* a request whose envelope is complete and that is no message for a plugin
Plain(r) == r.envelope = "ok" /\ r.verb # "message"

\* faulty variant: the envelope is not checked
EnvelopeUnchecked(r) == ""

\* the error of the envelope checks, "" when they pass
EnvelopeError(r) ==
    IF r.envelope = "invalid" THEN "INVALID_JSON"
    ELSE IF r.envelope = "nonobject" THEN "INVALID_JSON_OBJECT"
    ELSE IF r.envelope \in {"notransaction", "nojanus"}
    THEN "MISSING_MANDATORY_ELEMENT"
    ELSE ""

\* a verb on the path it belongs to, and a plugin the registry knows
ScopeCorrect(r) ==
    /\ r.verb = "create" => r.sid = 0
    /\ r.verb \in {"attach", "destroy"} => (r.sid # 0 /\ r.hid = 0)
    /\ r.verb = "detach" => r.hid # 0
    /\ r.verb # "nope"
    /\ r.plugin \in plugins

\* the long-poll runs send GETs; the serial runs send every POST of the
\* session and handle lifecycle; the concurrent runs send those that name a
\* verb on its own path, to the base path and to session 1; the dispatch
\* runs send every request but the messages on a handle path; the message
\* runs send those that carry a body for the plugin, with an offer when they
\* are a call or an accept, and but for the requests that only get a reply;
\* the worker runs send each kind of request to the handles of the session,
\* with one transaction; the media runs send detach requests and messages
\* with and without a session description to the first handle of the
\* session; the envelope runs send POSTs with a broken envelope or an empty
\* transaction on every path, and messages with and without a body; the
\* negotiation runs send messages with every kind of session description to
\* the first handle; the event runs send it messages with an offer; the
\* shutdown runs send long polls to the session; the teardown runs send register and call messages and
\* detach requests to the handles of the session
\* A request body is a text over two characters; MHD hands it to the handler
\* in chunks, each a non-empty piece of the text.
Chunks == {<<"c">>, <<"r">>, <<"c", "r">>}
Uploads == UNION {[1..n -> Chunks] : n \in 0..MaxChunks}
\* the one text that is the JSON of a create request
CREATE_TEXT == <<"c", "r">>

\* json_loads(payload) at the dispatch, and what the envelope checks read
\* from its result: every other text is not JSON
json_loads(payload) ==
    IF payload = CREATE_TEXT THEN [verb |-> "create", envelope |-> "ok"]
    ELSE [verb |-> "nope", envelope |-> "invalid"]

\* the chunks of an upload, one after the other
RECURSIVE Concat(_)
Concat(chunks) ==
    IF chunks = <<>> THEN <<>> ELSE Head(chunks) \o Concat(Tail(chunks))

InWorkload(r) ==
    IF workload \in {"poll", "push"} THEN r.method = "GET"
    ELSE IF workload = "lifecycle" THEN r.method = "POST" /\ Plain(r)
    ELSE IF workload = "concurrent"
    THEN r.method = "POST" /\ Plain(r) /\ ScopeCorrect(r) /\ r.sid <= 1
    ELSE IF workload = "dispatch"
    THEN /\ r.envelope # EMPTY_TRANSACTION
         /\ r.verb = "message" =>
                (/\ r.hid = 0 /\ r.transaction = 1
                 /\ r.body = "object" /\ r.jsep = "none")
    ELSE IF workload = "teardown"
    THEN /\ r.method = "POST" /\ r.sid = 1 /\ r.hid # 0 /\ r.transaction = 1
         /\ \/ r.verb = "detach" /\ Plain(r)
            \/ /\ r.verb = "message" /\ r.body = "object"
               /\ r.message.request \in {"register", "call"}
               /\ r.jsep = (IF r.message.request = "call"
                            THEN "offer" ELSE "none")
    ELSE IF workload = "envelope"
    THEN /\ r.method = "POST" /\ r.transaction = 1 /\ r.jsep = "none"
         /\ r.verb \in {"create", "destroy", "nope", "message"}
         /\ r.envelope = "ok" => r.verb = "message" /\ r.hid # 0
         /\ r.message.request \in {"", "set"}
    ELSE IF workload = "sdp"
    THEN /\ r.method = "POST" /\ r.sid = 1 /\ r.hid = 1 /\ r.transaction = 1
         /\ r.verb = "message" /\ r.body = "object"
         /\ r.message.request = "set"
         /\ r.jsep \in SdpJseps \cup {"none", "unknowntype", "invalidsdp",
                                       "offer", "answer"}
    ELSE IF workload \in {"stop", "lock"}
    THEN r.method = "GET" /\ r.sid = 1 /\ r.hid = 0
    ELSE IF workload = "http"
    THEN /\ r.method = conn.method /\ r.hid = 0 /\ r.transaction = 1
         /\ r.plugin = VIDEOCALL
         /\ r.sid = (IF conn.path = "session" THEN 1 ELSE 0)
         /\ IF r.method = "GET" THEN r.verb = "nope" /\ Plain(r)
            ELSE json_loads(conn.payload) = [verb |-> r.verb,
                                             envelope |-> r.envelope]
    ELSE IF workload = "event"
    THEN /\ r.method = "POST" /\ r.sid = 1 /\ r.hid = 1 /\ r.transaction = 1
         /\ r.verb = "message" /\ r.body = "object"
         /\ r.message.request = "set" /\ r.jsep = "offer"
    ELSE IF workload = "peer"
    THEN /\ r.method = "POST" /\ r.sid = 1 /\ r.hid # 0 /\ r.transaction = 1
         /\ \/ r.verb = "detach" /\ Plain(r)
            \/ /\ r.verb = "message" /\ r.body = "object"
               /\ r.message.request \in {"register", "call", "accept", "hangup"}
               /\ r.jsep = (IF r.message.request \in {"call", "accept"}
                            THEN "offer" ELSE "none")
    ELSE IF workload = "media"
    THEN /\ r.method = "POST" /\ r.sid = 1 /\ r.hid = 1 /\ r.transaction = 1
         /\ \/ r.verb = "detach" /\ Plain(r)
            \/ /\ r.verb = "message" /\ r.body = "object"
               /\ r.message.request = "set"
               /\ r.jsep \in {"none", "offer"}
    ELSE /\ r.verb = "message" /\ r.hid # 0 /\ r.body = "object"
         /\ r.jsep = (IF r.message.request \in {"call", "accept"}
                      THEN "offer" ELSE "none")
         /\ IF workload = "message" THEN r.message.request # "set"
            ELSE r.sid = 1 /\ r.transaction = 1

\* the handle table of the session a path names, for the history
HandlesAt(sid) ==
    IF sid # 0 /\ sessions[sid] # NULL THEN srec[sessions[sid]].ice_handles
    ELSE [i \in HandleIds |-> NULL]

\* the tables, the plugin's sessions and calls, and the plugin's messages
Tables == <<sessions, srec, hrec, psess, ncreate, ndestroy, nextMsg, pmsgs>>

Snapshot(t, r) ==
    IF serial
    THEN [NoLoc EXCEPT !.preS = sessions, !.preH = HandlesAt(r.sid),
                       !.pre = IF workload \in {"dispatch", "envelope"}
                               THEN Tables ELSE <<>>]
    ELSE NoLoc

\* the handler goes on to the tables; a create/destroy or attach/detach pair
\* that was completed before this request stops being remembered
Start(t, p) ==
    /\ pc' = [pc EXCEPT ![t] = p]
    /\ hist' = IF hist.undone THEN NoHist ELSE hist
    /\ UNCHANGED resp

\* faulty variant: the redirect names the path of the handle
redirect_location_handle(r) == r.hid

\* line 413: the redirect of a GET on a handle path names ws_path/session_path
redirect_location(r) == r.sid

(***************************************************************************)
(* The calls MHD makes to janus_ws_handler for one request, up to the     *)
(* dispatch (lines 165-316): the first call sees only the headers, each   *)
(* later call brings the next chunk of the body or an upload size of 0.   *)
(***************************************************************************)
HttpMethods == {"GET", "POST", "OPTIONS", "PUT"}
HttpPaths == {"base", "session", "invalid"}

\* MHD_queue_response(connection, status, response): a connection takes one
\* response, a second call is refused with MHD_NO
MHD_queue_response(c, status) ==
    [c EXCEPT !.queued = @ + 1, !.codes = Append(@, status),
              !.ret = IF c.queued = 0 THEN "MHD_YES" ELSE "MHD_NO"]

\* faulty variant: the chunk is copied to the start of the buffer
payload_copy_front(payload, len, chunk) == chunk \o SubSeq(payload, 1, len)

\* lines 288-299: the buffer grows to len + size + 1 and the chunk is copied
\* to msg->payload + msg->len
payload_copy(payload, len, chunk) == SubSeq(payload, 1, len) \o chunk

\* lines 206-216: an OPTIONS request gets a 200 and the handler goes on
AfterOptions(c) ==
    IF c.method = "OPTIONS" THEN MHD_queue_response(c, 200) ELSE c

\* lines 217-231: a path outside the base path gets a 404 and the handler
\* goes on
AfterBasePath(c) ==
    IF c.path = "invalid" THEN MHD_queue_response(c, 404) ELSE c

\* the handler returns to MHD: the request is over when a response was
\* queued or the handler returned MHD_NO, else MHD calls again
Returned(c) ==
    [c EXCEPT !.pc = IF c.queued > 0 \/ c.ret = "MHD_NO" THEN "closed"
                     ELSE "open"]

\* one call of janus_ws_handler up to the dispatch, with the chunk MHD
\* brings (<<>> when the upload size is 0)
janus_ws_handler_call(c0, firstround, upload) ==
    LET c == [c0 EXCEPT !.round = @ + 1,
                        !.ret = IF firstround THEN "MHD_YES" ELSE "MHD_NO"]
    IN  IF c.method \notin {"GET", "POST", "OPTIONS"}
        THEN Returned(MHD_queue_response(c, 501))
        ELSE LET c2 == AfterBasePath(AfterOptions(c))
             IN  IF firstround THEN Returned(c2)
                 ELSE IF c2.method # "POST" THEN [c2 EXCEPT !.pc = "dispatch"]
                 ELSE IF upload # <<>>
                 THEN Returned([c2 EXCEPT
                         !.payload = payload_copy(c2.payload, c2.len, upload),
                         !.len = @ + Len(upload),
                         !.ret = "MHD_YES"])
                 ELSE IF c2.payload = <<>>
                 THEN Returned([c2 EXCEPT !.ret = "MHD_NO"])
                 ELSE [c2 EXCEPT !.pc = "dispatch"]

HttpFrame == <<sessions, srec, hrec, psess, ncreate, ndestroy, stop, mainpc,
               nextEv, evs, delivered, lastret, overlapped, serial, workload,
               hist, pc, req, loc, resp, ice, steps, pwait, inq, late>>

\* lines 165-193 and the first round of lines 194-248: a request arrives,
\* *ptr is NULL and the context is allocated
mhd_first_call ==
    /\ workload = "http"
    /\ mainpc = "serve"
    /\ stop < 3
    /\ pc[1] = "idle"
    /\ conn.pc \in {"idle", "closed", "dispatched"}
    /\ \E m \in HttpMethods, p \in HttpPaths, body \in Uploads :
        /\ body # <<>> => m = "POST"
        /\ conn' = janus_ws_handler_call(
                       [NoConn EXCEPT !.method = m, !.path = p, !.todo = body,
                                      !.pre = sessions], TRUE, <<>>)
    /\ UNCHANGED HttpFrame
    /\ UNCHANGED pvars
    /\ UNCHANGED mvars
    /\ UNCHANGED uvars
    /\ UNCHANGED lvars

\* a later call: MHD brings the next chunk, or an upload size of 0 when the
\* body is complete
mhd_next_call ==
    /\ workload = "http"
    /\ mainpc = "serve"
    /\ stop < 3
    /\ conn.pc = "open"
    /\ LET upload == IF conn.todo = <<>> THEN <<>> ELSE Head(conn.todo)
           c == IF conn.todo = <<>> THEN conn
                ELSE [conn EXCEPT !.todo = Tail(@), !.sent = Append(@, upload)]
       IN  conn' = janus_ws_handler_call(c, FALSE, upload)
    /\ UNCHANGED HttpFrame
    /\ UNCHANGED pvars
    /\ UNCHANGED mvars
    /\ UNCHANGED uvars
    /\ UNCHANGED lvars

janus_ws_handler(t) ==
    /\ pc[t] = "idle"
    /\ mainpc = "serve"
    /\ stop < 3
    /\ serial => OthersIdle(t)
    /\ workload = "http" => t = 1 /\ conn.pc = "dispatch"
    /\ \E r \in ClientRequests :
        /\ InWorkload(r)
        /\ req' = [req EXCEPT ![t] = r]
        /\ loc' = [loc EXCEPT ![t] = Snapshot(t, r)]
        /\ IF r.sid = 0
           THEN IF r.method = "GET"
                THEN FinishAs(t, r, Snapshot(t, r), ErrorResp("USE_POST"), NULL)
                ELSE IF EnvelopeError(r) # ""
                THEN FinishAs(t, r, Snapshot(t, r), ErrorResp(EnvelopeError(r)), NULL)
                ELSE IF r.verb # "create"
                THEN FinishAs(t, r, Snapshot(t, r), ErrorResp("INVALID_REQUEST_PATH"), NULL)
                ELSE /\ FreeSRefs # {}
                     /\ Start(t, "create_draw")
           ELSE IF r.method = "GET"
                THEN IF r.hid # 0
                     THEN FinishAs(t, r, Snapshot(t, r),
                                   RedirectResp(redirect_location(r)), NULL)
                     ELSE /\ Start(t, "get_find")
                ELSE IF EnvelopeError(r) # ""
                THEN FinishAs(t, r, Snapshot(t, r), ErrorResp(EnvelopeError(r)), NULL)
                ELSE /\ Start(t, "post_find")
    /\ conn' = (IF workload = "http"
                THEN [conn EXCEPT !.pc = "dispatched", !.dispatched = @ + 1]
                ELSE conn)
    /\ UNCHANGED <<sessions, srec, hrec, psess, ncreate, ndestroy, stop, mainpc,
                   nextEv, evs, delivered, lastret, overlapped, serial, workload>>
    /\ UNCHANGED pvars
    /\ UNCHANGED mvars
    /\ UNCHANGED uvars
    /\ UNCHANGED lvars
    /\ UNCHANGED <<ice, steps, pwait, inq, late>>

(***************************************************************************)
(* janus_session_create                                                    *)
(***************************************************************************)
\* the draw loop: a draw that is 0 or taken is drawn again, a free one is kept
janus_session_create_draw(t) ==
    /\ pc[t] = "create_draw"
    /\ stop < 3
    /\ \E id \in 0..MaxSessionId :
        /\ DrawnIdIsFree(id)
        /\ loc' = [loc EXCEPT ![t].id = id]
    /\ Goto(t, "create_insert")
    /\ UNCHANGED <<sessions, srec, hrec, psess, ncreate, ndestroy, stop, mainpc,
                   req, nextEv, evs, delivered, lastret, overlapped, serial, workload>>
    /\ UNCHANGED pvars
    /\ UNCHANGED mvars
    /\ UNCHANGED uvars
    /\ UNCHANGED lvars
    /\ UNCHANGED xvars

\* calloc, the fields, g_hash_table_insert, and the success reply of the
\* handler; when calloc fails (no record is left) the reply is "Memory error"
janus_session_create_insert(t) ==
    /\ pc[t] = "create_insert"
    /\ stop < 3
    /\ IF FreeSRefs = {}
       THEN /\ Finish(t, ErrorResp("UNKNOWN"), NULL)
            /\ UNCHANGED <<srec, sessions, loc>>
       ELSE LET r == NewRef(FreeSRefs) IN
            /\ srec' = [srec EXCEPT ![r] = [NoSession EXCEPT !.alloc = TRUE,
                                                            !.session_id = loc[t].id]]
            /\ sessions' = g_hash_table_insert(sessions, loc[t].id, r)
            /\ loc' = [loc EXCEPT ![t].sess = r]
            /\ Finish(t, SuccessResp(loc[t].id), r)
    /\ UNCHANGED <<hrec, psess, ncreate, ndestroy, stop, mainpc, req, nextEv, evs,
                   delivered, lastret, overlapped, serial, workload>>
    /\ UNCHANGED pvars
    /\ UNCHANGED mvars
    /\ UNCHANGED uvars
    /\ UNCHANGED lvars
    /\ UNCHANGED xvars

(***************************************************************************)
(* janus_session_destroy, called by the destroy request                    *)
(***************************************************************************)
\* faulty variant: the destroy forgets g_hash_table_remove
janus_session_destroy_table_noremove(id) == sessions

\* the session table after janus_session_destroy(id)
janus_session_destroy_table(id) ==
    IF janus_session_find(id) = NULL THEN sessions
    ELSE g_hash_table_remove(sessions, id)

\* the session records after janus_session_destroy(id): the flag is set, the
\* handles are left alone ("TODO Remove all handles")
janus_session_destroy_records(id) ==
    IF janus_session_find(id) = NULL THEN srec
    ELSE [srec EXCEPT ![janus_session_find(id)].destroy = 1]

\* the handler ignores the result and replies success
destroy_request(t) ==
    /\ pc[t] = "destroy_call"
    /\ stop < 3
    /\ sessions' = janus_session_destroy_table(req[t].sid)
    /\ srec' = janus_session_destroy_records(req[t].sid)
    /\ Finish(t, SuccessResp(0), loc[t].sess)
    /\ UNCHANGED <<hrec, psess, ncreate, ndestroy, stop, mainpc, req, loc, nextEv,
                   evs, delivered, lastret, overlapped, serial, workload>>
    /\ UNCHANGED pvars
    /\ UNCHANGED mvars
    /\ UNCHANGED uvars
    /\ UNCHANGED lvars
    /\ UNCHANGED xvars

(***************************************************************************)
(* Long poll: the GET branch of janus_ws_handler and janus_ws_notifier     *)
(***************************************************************************)
OtherGetOn(t, r) ==
    \E u \in Threads \ {t} : pc[u] \in GetStates /\ loc[u].sess = r

\* the GET has its session: remember it, and for the history the newest event
\* returned so far and whether another GET is in progress on the session
EnterGet(t, r, p) ==
    /\ loc' = [loc EXCEPT ![t].sess = r, ![t].floor = lastret[r], ![t].elapsed = 0]
    /\ overlapped' = [overlapped EXCEPT ![r] = @ \/ OtherGetOn(t, r)]
    /\ Goto(t, p)

\* a response that carries event e of session record r
Deliver(t, r, e) ==
    /\ delivered' = [delivered EXCEPT ![e] = @ + 1]
    /\ lastret' = [lastret EXCEPT ![r] = Max(@, e)]
    /\ Finish(t, EventResp(e), r)

\* janus_session_find at line 426: 404 when the session is unknown
get_find(t) ==
    /\ pc[t] = "get_find"
    /\ stop < 3
    /\ LET r == janus_session_find(req[t].sid) IN
        IF r = NULL
        THEN /\ Finish(t, HttpResp(404), NULL)
             /\ UNCHANGED <<loc, overlapped>>
        ELSE EnterGet(t, r, "get_pop")
    /\ UNCHANGED <<sessions, srec, hrec, psess, ncreate, ndestroy, stop, mainpc,
                   req, nextEv, evs, delivered, lastret, serial, workload>>
    /\ UNCHANGED pvars
    /\ UNCHANGED mvars
    /\ UNCHANGED uvars
    /\ UNCHANGED lvars
    /\ UNCHANGED xvars

\* g_queue_pop_head at line 441, first half; an empty queue goes to the notifier
get_pop(t) ==
    /\ pc[t] = "get_pop"
    /\ stop < 3
    /\ LET q == srec[loc[t].sess].messages IN
        IF g_queue_head(q) = NULL
        THEN /\ Goto(t, "notif_find")
             /\ UNCHANGED loc
        ELSE /\ loc' = [loc EXCEPT ![t].node = g_queue_head(q),
                                   ![t].nxt = g_queue_head_next(q)]
             /\ Goto(t, "get_unlink")
    /\ UNCHANGED <<sessions, srec, hrec, psess, ncreate, ndestroy, stop, mainpc,
                   req, nextEv, evs, delivered, lastret, overlapped, serial, workload>>
    /\ UNCHANGED pvars
    /\ UNCHANGED mvars
    /\ UNCHANGED uvars
    /\ UNCHANGED lvars
    /\ UNCHANGED xvars

\* g_queue_pop_head at line 441, second half, and the reply with the payload
get_unlink(t) ==
    /\ pc[t] = "get_unlink"
    /\ stop < 3
    /\ \E q2 \in g_queue_unlink(srec[loc[t].sess].messages, loc[t].nxt) :
        srec' = [srec EXCEPT ![loc[t].sess].messages = q2]
    /\ Deliver(t, loc[t].sess, loc[t].node)
    /\ UNCHANGED <<sessions, hrec, psess, ncreate, ndestroy, stop, mainpc, req,
                   loc, nextEv, evs, overlapped, serial, workload>>
    /\ UNCHANGED pvars
    /\ UNCHANGED mvars
    /\ UNCHANGED uvars
    /\ UNCHANGED lvars
    /\ UNCHANGED xvars


\* one more iteration of a loop, begun when the stop flag was set; only the
\* shutdown runs count them
LateIteration(l) ==
    IF workload = "stop" /\ stop # 0 /\ late[l] < MaxLate
    THEN [late EXCEPT ![l] = @ + 1] ELSE late

\* a loop is entered: it has made no iteration yet
LoopEntered(l) == [late EXCEPT ![l] = 0]

\* janus_ws_notifier, lines 756-771: the session is looked up again
notif_find(t) ==
    /\ pc[t] = "notif_find"
    /\ stop < 3
    /\ LET r == janus_session_find(req[t].sid) IN
        IF r = NULL
        THEN /\ Finish(t, HttpResp(404), NULL)
             /\ UNCHANGED <<loc, overlapped>>
        ELSE EnterGet(t, r, "notif_loop")
    /\ late' = LoopEntered("longpoll")
    /\ UNCHANGED <<sessions, srec, hrec, psess, ncreate, ndestroy, stop, mainpc,
                   req, nextEv, evs, delivered, lastret, serial, workload,
                   ice, steps, pwait, conn, inq>>
    /\ UNCHANGED pvars
    /\ UNCHANGED mvars
    /\ UNCHANGED uvars
    /\ UNCHANGED lvars

\* faulty variant: the loop gives up one sleep before the ceiling
LongPollExpiredEarly(elapsed) == elapsed >= PollCeiling - 1

\* faulty variant: the loop does not look at the stop flag
StopIgnored == FALSE

\* the test of the loop at line 773
LongPollExpired(elapsed) == elapsed >= PollCeiling

\* the test at line 775, for an iteration that popped nothing
StopSeen == stop # 0

\* one iteration of the loop at lines 773-782: the loop test, the first half of
\* g_queue_pop_head, the stop test, g_usleep and the new reading of the clock
notif_loop(t) ==
    /\ pc[t] = "notif_loop"
    /\ stop < 3
    /\ LET q == srec[loc[t].sess].messages IN
        IF LongPollExpired(loc[t].elapsed)
        THEN /\ Finish(t, KeepAlive, loc[t].sess)
             /\ UNCHANGED loc
        ELSE IF g_queue_head(q) # NULL
        THEN /\ loc' = [loc EXCEPT ![t].node = g_queue_head(q),
                                   ![t].nxt = g_queue_head_next(q)]
             /\ Goto(t, "notif_unlink")
        ELSE IF StopSeen
        THEN /\ Finish(t, KeepAlive, loc[t].sess)
             /\ UNCHANGED loc
        ELSE /\ \E e2 \in (loc[t].elapsed + 1)..PollCeiling :
                    loc' = [loc EXCEPT ![t].elapsed = e2]
             /\ UNCHANGED <<pc, resp, hist>>
    /\ late' = IF LongPollExpired(loc[t].elapsed) THEN late
               ELSE LateIteration("longpoll")
    /\ UNCHANGED <<sessions, srec, hrec, psess, ncreate, ndestroy, stop, mainpc,
                   req, nextEv, evs, delivered, lastret, overlapped, serial, workload,
                   ice, steps, pwait, conn, inq>>
    /\ UNCHANGED pvars
    /\ UNCHANGED mvars
    /\ UNCHANGED uvars
    /\ UNCHANGED lvars

\* second half of g_queue_pop_head at line 774; an event ends the loop and is
\* the response (lines 775-818)
notif_unlink(t) ==
    /\ pc[t] = "notif_unlink"
    /\ stop < 3
    /\ \E q2 \in g_queue_unlink(srec[loc[t].sess].messages, loc[t].nxt) :
        srec' = [srec EXCEPT ![loc[t].sess].messages = q2]
    /\ Deliver(t, loc[t].sess, loc[t].node)
    /\ UNCHANGED <<sessions, hrec, psess, ncreate, ndestroy, stop, mainpc, req,
                   loc, nextEv, evs, overlapped, serial, workload>>
    /\ UNCHANGED pvars
    /\ UNCHANGED mvars
    /\ UNCHANGED uvars
    /\ UNCHANGED lvars
    /\ UNCHANGED xvars

(***************************************************************************)
(* POST on a session or handle path: lines 474-703 of janus_ws_handler     *)
(***************************************************************************)
\* faulty variant: every package is taken for a plugin of the registry
janus_plugin_find_any(package) == package

\* janus_plugin_find
janus_plugin_find(package) == IF package \in plugins THEN package ELSE ""

\* janus_ice_handle_find (ice.c)
janus_ice_handle_find(r, hid) == srec[r].ice_handles[hid]

\* faulty variant: a verb on the wrong path is answered as an unknown verb
ScopeErrorUnknown(verb, h) ==
    IF verb \in {"attach", "destroy"} /\ h = NULL THEN ""
    ELSE IF verb \in {"detach", "message"} /\ h # NULL THEN ""
    ELSE "UNKNOWN_REQUEST"

\* the first test of each branch of the verb chain (lines 492-497, 537-542,
\* 553-558, 579-584) and its end (lines 701-703): a session-level verb on a
\* handle path and a handle-level verb on a session path are turned away, and
\* so is every verb the chain does not name; "" when the verb goes on
ScopeError(verb, h) ==
    IF verb \in {"attach", "destroy"}
    THEN IF h # NULL THEN "INVALID_REQUEST_PATH" ELSE ""
    ELSE IF verb \in {"detach", "message"}
    THEN IF h = NULL THEN "INVALID_REQUEST_PATH" ELSE ""
    ELSE "UNKNOWN_REQUEST"

\* lines 475-489, then the tests each verb makes before it touches the tables
post_find(t) ==
    /\ pc[t] = "post_find"
    /\ stop < 3
    /\ LET r == janus_session_find(req[t].sid)
           h == IF r # NULL /\ req[t].hid # 0
                THEN janus_ice_handle_find(r, req[t].hid) ELSE NULL
           verb == req[t].verb
       IN
        /\ loc' = [loc EXCEPT ![t].sess = r, ![t].hnd = h]
        /\ IF r = NULL
           THEN FinishAs(t, req[t], loc[t], ErrorResp("SESSION_NOT_FOUND"), NULL)
           ELSE IF req[t].hid # 0 /\ h = NULL
           THEN FinishAs(t, req[t], loc[t], ErrorResp("HANDLE_NOT_FOUND"), NULL)
           ELSE IF ScopeError(verb, h) # ""
           THEN FinishAs(t, req[t], loc[t], ErrorResp(ScopeError(verb, h)), h)
           ELSE IF verb = "attach"
           THEN IF janus_plugin_find(req[t].plugin) = ""
                THEN FinishAs(t, req[t], loc[t], ErrorResp("PLUGIN_NOT_FOUND"), NULL)
                ELSE /\ FreeHRefs # {}
                     /\ Goto(t, "attach_create")
           ELSE IF verb = "destroy"
           THEN Goto(t, "destroy_call")
           ELSE IF verb = "detach"
           THEN Goto(t, "detach_call")
           ELSE Goto(t, "message_call")
    /\ UNCHANGED <<sessions, srec, hrec, psess, ncreate, ndestroy, stop, mainpc,
                   req, nextEv, evs, delivered, lastret, overlapped, serial, workload>>
    /\ UNCHANGED pvars
    /\ UNCHANGED mvars
    /\ UNCHANGED uvars
    /\ UNCHANGED lvars
    /\ UNCHANGED xvars

\* janus_ice_handle_create (ice.c): a handle id that is free in the session,
\* a new record, and its entry in the session's handle table
janus_ice_handle_create(t) ==
    /\ pc[t] = "attach_create"
    /\ stop < 3
    /\ IF FreeHRefs = {}
       THEN /\ Finish(t, ErrorResp("UNKNOWN"), NULL)
            /\ UNCHANGED <<hrec, srec, loc>>
       ELSE LET r == loc[t].sess
                h == NewRef(FreeHRefs)
            IN \E id \in HandleIds :
                /\ janus_ice_handle_find(r, id) = NULL
                /\ hrec' = [hrec EXCEPT ![h] = [NoHandle EXCEPT !.state = "live",
                                                               !.handle_id = id,
                                                               !.session = r]]
                /\ srec' = [srec EXCEPT ![r].ice_handles[id] = h]
                /\ loc' = [loc EXCEPT ![t].hnd = h, ![t].id = id]
                /\ Goto(t, "attach_plugin")
    /\ UNCHANGED <<sessions, psess, ncreate, ndestroy, stop, mainpc, req, nextEv,
                   evs, delivered, lastret, overlapped, serial, workload>>
    /\ UNCHANGED pvars
    /\ UNCHANGED mvars
    /\ UNCHANGED uvars
    /\ UNCHANGED lvars
    /\ UNCHANGED xvars

\* the results of janus_videocall_create_session: 0, or -2 when calloc fails
CreateSessionErrors == {0, -2}

\* faulty variant: the handle stays in the table of its session
HandleKept(r, id) == srec

\* the handle table of a session after janus_ice_handle_destroy (ice.c)
HandleRemoved(r, id) == [srec EXCEPT ![r].ice_handles[id] = NULL]

\* faulty variant: the attach reply carries the session id, as the create reply does
attach_reply_id_session(h) == srec[hrec[h].session].session_id

\* line 515: the id the attach reply carries is the new handle's
attach_reply_id(h) == hrec[h].handle_id

\* janus_ice_handle_attach_plugin (ice.c), which calls the plugin's
\* create_session, and lines 518-536: on an error the handle is destroyed
\* again and the reply is PLUGIN_ATTACH
attach_plugin(t) ==
    /\ pc[t] = "attach_plugin"
    /\ stop < 3
    /\ LET h == loc[t].hnd
           r == loc[t].sess
       IN \E error \in CreateSessionErrors :
            /\ ncreate' = [ncreate EXCEPT ![h] = @ + 1]
            /\ IF error = 0
               THEN /\ psess' = [psess EXCEPT ![h] = "live"]
                    /\ hrec' = [hrec EXCEPT ![h].app = req[t].plugin,
                                            ![h].app_handle = h]
                    /\ Finish(t, SuccessResp(attach_reply_id(h)), h)
                    /\ UNCHANGED srec
               ELSE /\ hrec' = [hrec EXCEPT ![h].state = "closed"]
                    /\ srec' = IF janus_ice_handle_find(r, loc[t].id) = h
                               THEN HandleRemoved(r, loc[t].id) ELSE srec
                    /\ Finish(t, ErrorResp("PLUGIN_ATTACH"), h)
                    /\ UNCHANGED psess
    /\ UNCHANGED <<sessions, ndestroy, stop, mainpc, req, loc, nextEv, evs,
                   delivered, lastret, overlapped, serial, workload>>
    /\ UNCHANGED pvars
    /\ UNCHANGED mvars
    /\ UNCHANGED uvars
    /\ UNCHANGED lvars
    /\ UNCHANGED xvars

\* the results of a plugin's destroy_session: 0, or an error the plugin
\* reports and leaves its session as it was (janus_videocall_destroy_session
\* sets -1 while the plugin is not running).  The dispatch runs draw both.
DestroySessionErrors == IF workload = "dispatch" THEN {0, -1} ELSE {0}

\* the kinds of message text a plugin hands to janus_push_event
MessageKinds == {"object", "nonobject", "invalid"}
\* the sdp_type/sdp pair of a push_event call: absent, or what janus_handle_sdp
\* makes of it
SdpKinds == {"none", "valid", "invalid"}

\* the value janus_push_event returns (lines 924-982)
janus_push_event_result(h, kind, sdp) ==
    IF hrec[h].session = NULL THEN "SESSION_NOT_FOUND"
    ELSE IF kind = "invalid" THEN "INVALID_JSON"
    ELSE IF kind = "nonobject" THEN "INVALID_JSON_OBJECT"
    ELSE IF sdp = "invalid" THEN "JSEP_INVALID_SDP"
    ELSE IF nextEv >= MaxEvents THEN "UNKNOWN"
    ELSE "OK"

\* faulty variant: a message that is not an object is wrapped and queued too
janus_push_event_queue_unchecked(q, e, ret) ==
    IF ret \in {"OK", "INVALID_JSON_OBJECT"} /\ e \in Events
    THEN g_queue_push_tail(q, e) ELSE q

\* the queue of the session after the call: only a call that returns JANUS_OK
\* reaches g_queue_push_tail (line 981)
janus_push_event_queue(q, e, ret) ==
    IF ret = "OK" THEN g_queue_push_tail(q, e) ELSE q

\* janus_videocall_hangup_media, called by janus_videocall_destroy_session:
\* the session whose handle gets the hangup notice, NULL for none
hangup_media_peer(h) == vsess[h].peer

\* faulty variant of the next: the username stays in the table
destroy_session_users_kept(h) == users

\* janus_videocall_destroy_session, lines 233-235: the username of the
\* session is taken out of the table
destroy_session_users(h) ==
    IF vsess[h].username # 0
    THEN [users EXCEPT ![vsess[h].username] = NULL] ELSE users

\* janus_videocall_hangup_media, line 340: session->peer = NULL; the peer's
\* own peer field and the username field of the freed session are not written
destroy_session_vsess(h) == [vsess EXCEPT ![h].peer = NULL]

\* lines 559-578: janus_ice_handle_destroy (ice.c) looks the handle up, calls
\* the plugin's destroy_session (janus_videocall_destroy_session sends the
\* hangup notice to the peer, takes the username out of the table and frees
\* the plugin session) and removes the handle from the session's table,
\* whatever the plugin answers
detach_request(t) ==
    /\ pc[t] = "detach_call"
    /\ stop < 3
    /\ \E error \in DestroySessionErrors :
       LET r == loc[t].sess
           h == loc[t].hnd
           found == janus_ice_handle_find(r, req[t].hid)
           attached == hrec[h].app # "" /\ hrec[h].app_handle # NULL
           destroyed == /\ attached /\ found # NULL /\ hrec[found].app # ""
                        /\ error = 0 /\ psess[found] = "live"
           peer == IF destroyed THEN hangup_media_peer(found) ELSE NULL
           ret == IF peer # NULL
                  THEN janus_push_event_result(peer, "object", "none") ELSE ""
           e == nextEv + 1
       IN
        /\ IF ~attached
           THEN /\ Finish(t, ErrorResp("PLUGIN_DETACH"), h)
                /\ UNCHANGED <<srec, hrec, psess, ndestroy>>
           ELSE IF found = NULL
           THEN /\ Finish(t, ErrorResp("PLUGIN_DETACH"), h)
                /\ UNCHANGED <<srec, hrec, psess, ndestroy>>
           ELSE /\ srec' = IF ret = "OK"
                           THEN [HandleRemoved(r, req[t].hid)
                                    EXCEPT ![hrec[peer].session].messages =
                                        janus_push_event_queue(@, e, ret)]
                           ELSE HandleRemoved(r, req[t].hid)
                /\ hrec' = [hrec EXCEPT ![found].state = "closed"]
                /\ IF hrec[found].app = ""
                   THEN /\ Finish(t, SuccessResp(0), found)
                        /\ UNCHANGED <<psess, ndestroy>>
                   ELSE /\ ndestroy' = [ndestroy EXCEPT ![found] = @ + 1]
                        /\ IF error = 0 /\ psess[found] = "live"
                           THEN /\ psess' = [psess EXCEPT ![found] = "freed"]
                                /\ Finish(t, SuccessResp(0), found)
                           ELSE /\ Finish(t, ErrorResp("PLUGIN_DETACH"), found)
                                /\ UNCHANGED psess
        /\ vsess' = IF destroyed THEN destroy_session_vsess(found) ELSE vsess
        /\ users' = IF destroyed THEN destroy_session_users(found) ELSE users
        /\ IF ret = "OK"
           THEN /\ nextEv' = e
                /\ evs' = [evs EXCEPT ![e] = hrec[peer].session]
                /\ evinfo' = [evinfo EXCEPT ![e] =
                                [sender |-> hrec[peer].handle_id,
                                 transaction |-> NULL, cause |-> NULL]]
           ELSE UNCHANGED <<nextEv, evs, evinfo>>
    /\ UNCHANGED <<sessions, ncreate, stop, mainpc, req, loc, delivered, lastret,
                   overlapped, serial, workload>>
    /\ UNCHANGED <<nextMsg, mrec, pmsgs, hthread, pushret>>
    /\ UNCHANGED mvars
    /\ UNCHANGED uvars
    /\ UNCHANGED lvars
    /\ UNCHANGED xvars

(***************************************************************************)
(* Properties of the session and handle lifecycle                          *)
(***************************************************************************)
LiveSessions == {r \in SRefs : srec[r].alloc /\ srec[r].destroy = 0}

\* C1: two live sessions never share an id: every session a create returned
\* and no destroy has flagged has an id of its own, for every interleaving of
\* create requests.
C1_SessionIdsUnique ==
    \A r1 \in LiveSessions, r2 \in LiveSessions :
        r1 # r2 => srec[r1].session_id # srec[r2].session_id

\* C7: in a serial run, a create followed by the destroy of the session it
\* returned leaves the session table equal to the table the create found.
C7_CreateDestroyRestoresTable ==
    (hist.law = "create" /\ hist.undone) => sessions = hist.preS

\* a create/destroy pair was completed on a table that held another session
C7_Witness ==
    /\ hist.law = "create"
    /\ hist.undone
    /\ \E i \in SessionIds : hist.preS[i] # NULL

\* C8: in a serial run, a successful attach followed by the successful detach
\* of the handle it returned leaves the handle table of the session equal to
\* the table the attach found, and the plugin has received one create_session
\* and one destroy_session for that handle.
C8_AttachDetachRestoresHandles ==
    (hist.law = "attach" /\ hist.undone) =>
        /\ sessions[hist.sid] # NULL
        /\ srec[sessions[hist.sid]].ice_handles = hist.preH
        /\ ncreate[hist.ref] = 1
        /\ ndestroy[hist.ref] = 1

\* an attach/detach pair was completed in a session that held another handle
C8_Witness ==
    /\ hist.law = "attach"
    /\ hist.undone
    /\ \E i \in HandleIds : hist.preH[i] # NULL

\* C9: once a destroy has flagged a session, none of its handles is still
\* attached: none is left in its handle table and the plugin has received
\* destroy_session for each.
C9_DestroyDetachesHandles ==
    \A r \in SRefs :
        (srec[r].alloc /\ srec[r].destroy = 1) =>
            /\ \A i \in HandleIds : srec[r].ice_handles[i] = NULL
            /\ \A h \in HRefs :
                (hrec[h].session = r /\ ncreate[h] > 0 /\ psess[h] # "none")
                    => ndestroy[h] > 0

\* C11: every handle that is attached and not yet detached (the gateway holds
\* it and the plugin holds its session) belongs to a session that is in the
\* session table, and is bound to a plugin of the registry.
C11_HandleHasSessionAndPlugin ==
    \A h \in HRefs :
        (hrec[h].state = "live" /\ psess[h] = "live") =>
            /\ \E i \in SessionIds : sessions[i] = hrec[h].session
            /\ hrec[h].app \in plugins

\* C10: no step creates a handle in a session whose destroy flag is set.
C10_NoHandleInDestroyedSession ==
    [][\A h \in HRefs :
        (hrec[h].state = "free" /\ hrec'[h].state = "live")
            => srec[hrec'[h].session].destroy = 0]_vars

(***************************************************************************)
(* The plugin callback janus_push_event                                    *)
(***************************************************************************)
\* the plugin calls gateway->push_event for a handle it holds, with the
\* transaction it answers (NULL for none) and the message that caused the call
janus_push_event_call(h, transaction, kind, sdp, cause) ==
    LET ret == janus_push_event_result(h, kind, sdp)
        e == nextEv + 1
    IN
    /\ hrec[h].session # NULL
    /\ pushret' = IF workload = "push"
                  THEN [kind |-> kind, sdp |-> sdp, ret |-> ret] ELSE pushret
    /\ srec' = [srec EXCEPT ![hrec[h].session].messages =
                    janus_push_event_queue(@, e, ret)]
    /\ IF ret = "OK"
       THEN /\ nextEv' = e
            /\ evs' = [evs EXCEPT ![e] = hrec[h].session]
            /\ evinfo' = [evinfo EXCEPT ![e] =
                            [sender |-> hrec[h].handle_id,
                             transaction |-> transaction, cause |-> cause]]
       ELSE UNCHANGED <<nextEv, evs, evinfo>>

\* a push_event call of the plugin that no message of a client caused (the
\* hangup notice of janus_videocall_hangup_media, or any other plugin's event)
janus_push_event(h, kind) ==
    /\ stop < 3
    /\ serial => \A t \in Threads : pc[t] = "idle"
    /\ psess[h] = "live"
    /\ \E sdp \in (IF workload = "push" THEN SdpKinds ELSE {"none"}) :
            janus_push_event_call(h, NULL, kind, sdp, NULL)
    /\ UNCHANGED <<sessions, hrec, psess, ncreate, ndestroy, stop, mainpc, pc, req,
                   loc, resp, delivered, lastret, overlapped, serial, workload,
                   hist, nextMsg, mrec, pmsgs, hthread, vsess, users>>
    /\ UNCHANGED mvars
    /\ UNCHANGED uvars
    /\ UNCHANGED lvars
    /\ UNCHANGED xvars

\* g_queue_push_tail, first half: the queue->tail that g_list_append starts
\* from
g_queue_tail(q) == IF q = <<>> THEN NULL ELSE q[Len(q)]

\* g_queue_push_tail, second half: the node is linked behind the tail that
\* was read and becomes queue->tail.  No lock is held, so the queue may have
\* changed since the first half: when the tail that was read has been
\* unlinked and freed meanwhile, the node is linked behind freed memory and
\* is either lost or found by the next pop.
g_queue_link(q, tail, e) ==
    IF tail = g_queue_tail(q) THEN {g_queue_push_tail(q, e)}
    ELSE {q, g_queue_push_tail(q, e)}

\* janus_push_event on the plugin's own thread, up to the first half of
\* g_queue_push_tail (lines 924-981): the checks have passed, the
\* notification is allocated, session->messages is entered
janus_push_event_enter(h) ==
    /\ workload = "lock"
    /\ stop < 3
    /\ psess[h] = "live"
    /\ hrec[h].session # NULL
    /\ inq = {}
    /\ janus_push_event_result(h, "object", "none") = "OK"
    /\ LET e == nextEv + 1
           r == hrec[h].session
       IN  /\ inq' = {[sess |-> r, node |-> e,
                       tail |-> g_queue_tail(srec[r].messages)]}
           /\ nextEv' = e
           /\ evs' = [evs EXCEPT ![e] = r]
           /\ evinfo' = [evinfo EXCEPT ![e] =
                           [sender |-> hrec[h].handle_id,
                            transaction |-> NULL, cause |-> NULL]]
    /\ UNCHANGED <<sessions, srec, hrec, psess, ncreate, ndestroy, stop, mainpc,
                   pc, req, loc, resp, delivered, lastret, overlapped, serial,
                   workload, hist, nextMsg, mrec, pmsgs, hthread, vsess, users,
                   pushret>>
    /\ UNCHANGED mvars
    /\ UNCHANGED uvars
    /\ UNCHANGED lvars
    /\ UNCHANGED <<ice, steps, pwait, conn, late>>

\* the second half of g_queue_push_tail and the return of janus_push_event
\* (lines 981-982)
janus_push_event_leave ==
    /\ stop < 3
    /\ \E p \in inq :
        \E q2 \in g_queue_link(srec[p.sess].messages, p.tail, p.node) :
            srec' = [srec EXCEPT ![p.sess].messages = q2]
    /\ inq' = {}
    /\ UNCHANGED <<sessions, hrec, psess, ncreate, ndestroy, stop, mainpc,
                   pc, req, loc, resp, nextEv, evs, delivered, lastret,
                   overlapped, serial, workload, hist>>
    /\ UNCHANGED pvars
    /\ UNCHANGED mvars
    /\ UNCHANGED uvars
    /\ UNCHANGED lvars
    /\ UNCHANGED <<ice, steps, pwait, conn, late>>

\* a connection thread is between the two halves of g_queue_pop_head on the
\* queue of session r
InQueuePop(t, r) ==
    pc[t] \in {"get_unlink", "notif_unlink"} /\ loc[t].sess = r

\* C37: an enqueue by push_event on the plugin's thread and a dequeue by a
\* long-poll GET on a connection thread are never inside the queue operation
\* of the same session at the same time.
C37_QueueAccessExclusive ==
    \A p \in inq : \A t \in Threads : ~InQueuePop(t, p.sess)

(***************************************************************************)
(* The message request and the videocall plugin's message thread           *)
(***************************************************************************)
\* the error of the checks a message request goes through before the plugin
\* is called (lines 585-688), "" when they pass; janus_sdp_preparse and
\* janus_sdp_anonymize decide "invalidsdp"
MessageError(h, r) ==
    IF hrec[h].app = "" \/ hrec[h].app_handle = NULL THEN "PLUGIN_MESSAGE"
    ELSE IF r.body = "missing" THEN "INVALID_JSON"
    ELSE IF r.body = "nonobject" THEN "INVALID_JSON_OBJECT"
    ELSE IF r.jsep = "nonobject" THEN "INVALID_JSON_OBJECT"
    ELSE IF r.jsep \in {"notype", "nosdp"} THEN "MISSING_MANDATORY_ELEMENT"
    ELSE IF r.jsep = "unknowntype" THEN "JSEP_UNKNOWN_TYPE"
    ELSE IF r.jsep = "invalidsdp" THEN "JSEP_INVALID_SDP"
    ELSE IF ~JsepAnonymizes(r.jsep) THEN "JSEP_INVALID_SDP"
    ELSE ""

\* line 695: the ack carries the transaction of the request
ack_transaction(r) == r.transaction

\* janus_videocall_handle_message, line 251: the transaction is copied
handle_message_transaction(transaction) == transaction

\* janus_videocall_handle_message: the message is queued for the thread,
\* unless calloc fails (no record is left), which the caller is not told
janus_videocall_handle_message(h, transaction, message, sdp) ==
    IF nextMsg >= MaxMessages
    THEN UNCHANGED <<nextMsg, mrec, pmsgs>>
    ELSE /\ nextMsg' = nextMsg + 1
         /\ mrec' = [mrec EXCEPT ![nextMsg + 1] =
                        [handle |-> h,
                         transaction |-> handle_message_transaction(transaction),
                         message |-> message, sdp |-> sdp]]
         /\ pmsgs' = g_queue_push_tail(pmsgs, nextMsg + 1)

\* janus_ice_setup_local (ice.c), called at line 661 for the session
\* description of a message: the first exchange starts the negotiation.  Only
\* the media runs keep track of it.
janus_ice_setup_local(h) ==
    IF workload = "media" /\ media[h] = "none"
    THEN [media EXCEPT ![h] = "negotiating"]
    ELSE media

\* faulty variant: the plugin is called before the description is anonymized
SdpStepsAfterAnonymize(j) == <<"handle_message", "anonymize", "ack">>

\* lines 675-697: janus_sdp_anonymize, and plugin_t->handle_message and the
\* ack when it returned a string
SdpStepsFromAnonymize(j) ==
    IF JsepAnonymizes(j) THEN <<"anonymize", "handle_message", "ack">>
    ELSE <<"anonymize">>

\* lines 602-697: the steps a message request goes through from the first
\* call into the SDP code to the ack, in the order of the code; a step that
\* fails is the last
MessageSteps(h, r) ==
    IF hrec[h].app = "" \/ hrec[h].app_handle = NULL \/ r.body # "object"
    THEN <<>>
    ELSE IF r.jsep = "none" THEN <<"handle_message", "ack">>
    ELSE IF r.jsep = "invalidsdp" THEN <<"preparse">>
    ELSE IF JsepType(r.jsep) = "" THEN <<>>
    ELSE <<"preparse">>
         \o (IF JsepType(r.jsep) = "offer" THEN <<"setup_local">> ELSE <<>>)
         \o <<"parse">>
         \o (IF JsepType(r.jsep) = "answer" THEN <<"remote">> ELSE <<>>)
         \o SdpStepsFromAnonymize(r.jsep)

\* what one step does to the ICE and media state of the handle: line 661
\* (janus_ice_setup_local with the offer flag and the lines pre-parse
\* counted), line 663 (janus_sdp_parse fills the media context) and lines
\* 664-673
ApplyStep(ic, h, r, step) ==
    IF step = "setup_local"
    THEN [ic EXCEPT ![h] = [@ EXCEPT
                !.nlocal = IF @ < MaxLocal THEN @ + 1 ELSE @,
                !.offer = 1,
                !.streams_num = JsepStreams(r.jsep),
                !.cdone = 0]]
    ELSE IF step = "parse" THEN [ic EXCEPT ![h].parsed = TRUE]
    ELSE IF step = "remote"
    THEN [ic EXCEPT ![h].remote =
            @ \cup {<<st, c>> : st \in 1..ic[h].streams_num, c \in {1, 2}}]
    ELSE ic

RECURSIVE ApplySteps(_, _, _, _)
ApplySteps(ic, h, r, todo) ==
    IF todo = <<>> THEN ic
    ELSE ApplySteps(ApplyStep(ic, h, r, Head(todo)), h, r, Tail(todo))

\* lines 585-700: the checks, the setup of the local media,
\* plugin_t->handle_message and the ack
message_request(t) ==
    /\ pc[t] = "message_call"
    /\ stop < 3
    /\ LET h == loc[t].hnd
           err == MessageError(h, req[t])
       IN IF err # ""
          THEN /\ Finish(t, ErrorResp(err), h)
               /\ UNCHANGED <<nextMsg, mrec, pmsgs>>
          ELSE /\ janus_videocall_handle_message(hrec[h].app_handle,
                        req[t].transaction, req[t].message,
                        req[t].jsep # "none")
               /\ Finish(t, AckResp(ack_transaction(req[t])), h)
    /\ media' = IF /\ MessageError(loc[t].hnd, req[t]) = ""
                   /\ JsepType(req[t].jsep) = "offer"
                THEN janus_ice_setup_local(loc[t].hnd) ELSE media
    /\ steps' = IF workload \in SdpWorkloads
                THEN MessageSteps(loc[t].hnd, req[t]) ELSE steps
    /\ ice' = IF workload \in SdpWorkloads
              THEN ApplySteps(ice, loc[t].hnd, req[t],
                              MessageSteps(loc[t].hnd, req[t]))
              ELSE ice
    /\ UNCHANGED <<sessions, srec, hrec, psess, ncreate, ndestroy, stop, mainpc,
                   req, loc, nextEv, evs, delivered, lastret, overlapped, serial,
                   workload, hthread, evinfo, pushret, vsess, users, relay,
                   pwait, conn, inq, late>>
    /\ UNCHANGED lvars
    /\ UNCHANGED uvars

\* the order of the steps of a message with a session description
SdpOrder == <<"preparse", "setup_local", "parse", "remote", "anonymize",
              "handle_message", "ack">>

StepRank(step) == CHOOSE i \in DOMAIN SdpOrder : SdpOrder[i] = step

\* the step did not succeed for this jsep
StepFailed(step, j) ==
    \/ step = "preparse" /\ j = "invalidsdp"
    \/ step = "anonymize" /\ ~JsepAnonymizes(j)

\* a connection thread has answered a message that carried a jsep of a type
\* the gateway knows
AnsweredJsep(t) ==
    /\ workload = "sdp"
    /\ pc[t] = "responded"
    /\ req[t].verb = "message"
    /\ JsepType(req[t].jsep) # "" \/ req[t].jsep = "invalidsdp"

\* C33: a message with a jsep goes through pre-parse, local setup (offer,
\* with the offer flag and the lines pre-parse counted), parse, remote
\* candidates for components 1 and 2 of each stream (answer), anonymize and
\* handle_message in this order, each step only when the ones before it
\* succeeded; handle_message is called once per accepted message and the ack
\* comes after it
C33_SdpStepsInOrder ==
    \A t \in Threads : AnsweredJsep(t) =>
        LET j == req[t].jsep
            h == loc[t].hnd
            n == Len(steps)
            has(step) == \E i \in 1..n : steps[i] = step
            accepted == resp[t].kind = "ack"
        IN
        /\ n >= 1 /\ steps[1] = "preparse"
        /\ \A i, k \in 1..n : i < k => StepRank(steps[i]) < StepRank(steps[k])
        /\ \A i \in 1..n : StepFailed(steps[i], j) => i = n
        /\ has("setup_local") <=> (JsepType(j) = "offer" /\ j # "invalidsdp")
        /\ has("setup_local") =>
                /\ ice[h].nlocal >= 1
                /\ ice[h].offer = 1
                /\ ice[h].streams_num = JsepStreams(j)
        /\ has("parse") <=> j # "invalidsdp"
        /\ has("parse") => ice[h].parsed
        /\ has("remote") <=> JsepType(j) = "answer"
        /\ has("remote") =>
                \A st \in 1..ice[h].streams_num : \A c \in {1, 2} :
                    <<st, c>> \in ice[h].remote
        /\ has("anonymize") <=> j # "invalidsdp"
        /\ accepted <=> has("handle_message")
        /\ accepted <=> (n >= 2 /\ steps[n] = "ack"
                          /\ steps[n - 1] = "handle_message")
        /\ ~accepted => resp[t] = ErrorResp("JSEP_INVALID_SDP")

\* an offer with an audio and a video line was accepted: two streams are set
\* up, and the plugin was called after the description was anonymized
C33_Witness ==
    \E t \in Threads :
        /\ AnsweredJsep(t)
        /\ req[t].jsep = "offer-av"
        /\ resp[t].kind = "ack"
        /\ steps = <<"preparse", "setup_local", "parse", "anonymize",
                     "handle_message", "ack">>
        /\ ice[loc[t].hnd].streams_num = 2
        /\ nextMsg >= 1

\* C34: a message rejected with JSEP_UNKNOWN_TYPE or JSEP_INVALID_SDP leaves
\* the plugin uncalled and the ICE and media state of the handles as it was:
\* no local agent set up, no remote candidate submitted, no media context
C34_RejectedSdpChangesNothing ==
    [][\A t \in Threads :
          (/\ workload = "sdp"
           /\ pc[t] = "message_call"
           /\ pc'[t] = "responded"
           /\ resp'[t] \in {ErrorResp("JSEP_UNKNOWN_TYPE"),
                             ErrorResp("JSEP_INVALID_SDP")})
          => (/\ ice' = ice
              /\ UNCHANGED <<nextMsg, mrec, pmsgs>>)]_vars

Queues == <<nextEv, evs, delivered, lastret, overlapped, evinfo>>

\* thread t answers a GET on a handle path in this step
AnswersHandleGet(t) ==
    /\ pc[t] = "idle" /\ pc'[t] = "responded"
    /\ req'[t].method = "GET" /\ req'[t].hid # 0

\* C23: a GET on a handle path is answered with a 302 redirect to the path
\* of the session it names; no event is taken from a queue and no table
\* changes, whether the session and the handle exist or not
C23_HandleGetRedirects ==
    [][\A t \in Threads :
         AnswersHandleGet(t) =>
            /\ resp'[t] = RedirectResp(req'[t].sid)
            /\ UNCHANGED Tables
            /\ UNCHANGED Queues
            /\ UNCHANGED <<vsess, users>>]_vars

\* a GET on the path of an existing handle was redirected while an event
\* waits in the queue of its session
C23_Witness ==
    \E t \in Threads :
        /\ pc[t] = "responded" /\ req[t].method = "GET" /\ req[t].hid # 0
        /\ resp[t] = RedirectResp(req[t].sid)
        /\ sessions[req[t].sid] # NULL
        /\ janus_ice_handle_find(sessions[req[t].sid], req[t].hid) # NULL
        /\ \E e \in Events :
             /\ e <= nextEv /\ delivered[e] = 0
             /\ evs[e] = sessions[req[t].sid]

(***************************************************************************)
(* janus_ws_handler, lines 217-409: from the URL to the session and handle  *)
(* ids.  A URL is a sequence of characters; "J" stands for the text janus.  *)
(***************************************************************************)
Chars == {"/", "J", "0", "1", "x"}

\* the configured base path, /janus
ws_path == <<"/", "J">>

\* the URLs of requests: an HTTP request path begins with a slash
Urls == {u \in UNION {[1..n -> Chars] : n \in 1..MaxUrlLen} : u[1] = "/"}

\* strstr: the first position at which d occurs in s, 0 if there is none
FirstAt(s, d) ==
    LET hits == {i \in 1..(Len(s) - Len(d) + 1) :
                    SubSeq(s, i, i + Len(d) - 1) = d}
    IN IF hits = {} THEN 0 ELSE CHOOSE i \in hits : \A j \in hits : i <= j

RECURSIVE SplitTail(_, _)
\* g_strsplit past the first piece: the text up to the next delimiter, then
\* the split of what follows it; the text after the last delimiter is a
\* piece of its own, empty or not
SplitTail(s, d) ==
    LET i == FirstAt(s, d)
    IN IF i = 0 THEN <<s>>
       ELSE <<SubSeq(s, 1, i - 1)>>
                \o SplitTail(SubSeq(s, i + Len(d), Len(s)), d)

\* g_strsplit(string, delimiter, -1); the empty string gives no piece
g_strsplit(s, d) == IF s = <<>> THEN <<>> ELSE SplitTail(s, d)

IsDigit(c) == c \in {"0", "1"}

RECURSIVE DigitsValue(_, _)
\* the number the leading decimal digits of s denote, continuing from acc
DigitsValue(s, acc) ==
    IF s = <<>> \/ ~IsDigit(s[1]) THEN acc
    ELSE DigitsValue(Tail(s), 10 * acc + (IF s[1] = "1" THEN 1 ELSE 0))

\* g_ascii_strtoll(s, NULL, 10): the leading digits are converted and what
\* follows them is ignored; 0 when there is no digit
g_ascii_strtoll(s) == DigitsValue(s, 0)

NotFound == [status |-> "404", sid |-> 0, hid |-> 0]

\* lines 272-282 and 380-409: the components after the base path
RouteOfPath(path) ==
    LET session_path == IF Len(path) >= 2 /\ path[2] # <<>> THEN path[2] ELSE <<>>
        handle_path == IF session_path # <<>> /\ Len(path) >= 3 /\ path[3] # <<>>
                       THEN path[3] ELSE <<>>
    IN IF /\ session_path # <<>> /\ handle_path # <<>>
          /\ Len(path) >= 4 /\ path[4] # <<>>
       THEN NotFound
       ELSE IF session_path = <<>>
       THEN [status |-> "dispatch", sid |-> 0, hid |-> 0]
       ELSE IF g_ascii_strtoll(session_path) < 1 THEN NotFound
       ELSE IF handle_path = <<>>
       THEN [status |-> "dispatch", sid |-> g_ascii_strtoll(session_path),
             hid |-> 0]
       ELSE IF g_ascii_strtoll(handle_path) < 1 THEN NotFound
       ELSE [status |-> "dispatch", sid |-> g_ascii_strtoll(session_path),
             hid |-> g_ascii_strtoll(handle_path)]

\* lines 217-250: the URL is the base path, or it is split at the base path
\* and the piece after its first occurrence must begin with a slash
Route(u) ==
    IF u = ws_path THEN RouteOfPath(<<>>)
    ELSE LET basepath == g_strsplit(u, ws_path)
         IN IF Len(basepath) < 2 \/ basepath[2] = <<>> \/ basepath[2][1] # "/"
            THEN NotFound
            ELSE RouteOfPath(g_strsplit(basepath[2], <<"/">>))

\* janus_ws_handler up to line 409, for the first request of a run, on any
\* URL
janus_ws_handler_url ==
    /\ workload = "url"
    /\ mainpc = "serve"
    /\ route = NoRoute
    /\ QuietInit
    /\ \E u \in Urls :
         /\ url' = u
         /\ route' = Route(u)
    /\ UNCHANGED <<sessions, srec, hrec, psess, ncreate, ndestroy, stop, mainpc,
                   pc, req, loc, resp, nextEv, evs, delivered, lastret,
                   overlapped, serial, workload, hist>>
    /\ UNCHANGED pvars
    /\ UNCHANGED mvars
    /\ UNCHANGED lvars
    /\ UNCHANGED xvars

\* the URL begins with the text of the base path
BeginsWithBase(u) ==
    Len(u) >= Len(ws_path) /\ SubSeq(u, 1, Len(ws_path)) = ws_path

\* the pieces between the slashes of what follows the base path
Components(u) == g_strsplit(SubSeq(u, Len(ws_path) + 1, Len(u)), <<"/">>)

\* a decimal number that is at least 1
IsId(s) ==
    /\ s # <<>>
    /\ \A i \in 1..Len(s) : IsDigit(s[i])
    /\ \E i \in 1..Len(s) : s[i] # "0"

\* C28: a URL that does not begin with the base path, one with a fourth
\* component, and one whose session or handle id is not an integer of at
\* least 1 are answered 404 and lead to no session, handle or plugin
C28_OnlyGrammarDispatched ==
    (/\ route # NoRoute
     /\ \/ ~BeginsWithBase(url)
        \/ /\ Len(Components(url)) >= 4
           /\ Components(url)[4] # <<>>
        \/ \E k \in {2, 3} :
             /\ Len(Components(url)) >= k
             /\ Components(url)[k] # <<>>
             /\ ~IsId(Components(url)[k]))
        => route = NotFound

(***************************************************************************)
(* main(): the plugins folder is read and the registry filled               *)
(***************************************************************************)
\* lines 1374-1387: the members of the descriptor the loader looks at
CheckedCallbacks ==
    {"init", "destroy", "get_version", "get_version_string", "get_description",
     "get_package", "get_name", "create_session", "handle_message",
     "setup_media", "incoming_rtp", "incoming_rtcp", "hangup_media"}

\* lines 1374-1390: a descriptor is skipped when a member the loader looks at
\* is NULL
MissingMethods(d) == d.missing \in CheckedCallbacks

\* lines 1346-1390: the entry is passed over without a call of init
Skipped(d) == d.kind # "descriptor" \/ MissingMethods(d)

\* faulty variant: init is not called
plugin_init_skipped(i) == ninit

\* line 1391: janus_plugin->init(&janus_handler_plugin, configs_folder)
plugin_init(i) == [ninit EXCEPT ![i] = @ + 1]

\* lines 1346-1401: one turn of the readdir loop
janus_load_plugin ==
    /\ mainpc = "load"
    /\ nread < MaxPlugins
    /\ LET i == nread + 1
           d == plugdir[i]
       IN /\ nread' = i
          /\ IF Skipped(d)
             THEN UNCHANGED <<registry, ninit>>
             ELSE /\ ninit' = plugin_init(i)
                  /\ registry' = [registry EXCEPT ![d.package] = i]
    /\ UNCHANGED <<sessions, srec, hrec, psess, ncreate, ndestroy, stop, mainpc,
                   pc, req, loc, resp, nextEv, evs, delivered, lastret,
                   overlapped, serial, workload, hist, plugdir>>
    /\ UNCHANGED pvars
    /\ UNCHANGED mvars
    /\ UNCHANGED uvars
    /\ UNCHANGED xvars

\* lines 1402-1430: readdir returned NULL; the sessions table is created and
\* the web server started
main_start_webserver ==
    /\ mainpc = "load"
    /\ nread = MaxPlugins
    /\ mainpc' = "serve"
    /\ UNCHANGED <<sessions, srec, hrec, psess, ncreate, ndestroy, stop, pc, req,
                   loc, resp, nextEv, evs, delivered, lastret, overlapped, serial,
                   workload, hist>>
    /\ UNCHANGED pvars
    /\ UNCHANGED mvars
    /\ UNCHANGED uvars
    /\ UNCHANGED lvars
    /\ UNCHANGED xvars

\* the entry is in the registry
Registered(i) == \E p \in LoadPackages : registry[p] = i

\* C24: a descriptor that lacks one of the fourteen methods and callbacks is
\* never entered in the registry, and a complete one of the same folder is
\* (unless a later entry with the same package takes its place)
C24_IncompleteNeverRegistered ==
    \A i \in 1..nread :
        LET d == plugdir[i] IN
        /\ (d.kind = "descriptor" /\ d.missing # "none") => ~Registered(i)
        /\ (d.kind = "descriptor" /\ d.missing = "none")
                => registry[d.package] \in i..nread

\* C25: init was called once for each entry that is in the registry and never
\* for an entry the loader passed over, and when the web server is started
\* init has been called for every entry of the registry
C25_InitOncePerRegistered ==
    /\ \A i \in PluginSlots :
         /\ ninit[i] <= 1
         /\ Registered(i) => ninit[i] = 1
         /\ (i <= nread /\ Skipped(plugdir[i])) => ninit[i] = 0 /\ ~Registered(i)
    /\ mainpc = "serve" =>
         \A p \in LoadPackages : registry[p] # NULL => ninit[registry[p]] = 1

\* the web server is started after a folder with a plugin that was registered
\* and a descriptor that was passed over for a missing callback
C25_Witness ==
    /\ mainpc = "serve"
    /\ \E i, j \in PluginSlots :
         /\ Registered(i) /\ ninit[i] = 1
         /\ plugdir[j].kind = "descriptor" /\ MissingMethods(plugdir[j])
         /\ ninit[j] = 0

(***************************************************************************)
(* The media plane: the states of a handle and the relay callbacks          *)
(***************************************************************************)
\* the state of a handle: fresh until a plugin is attached, attached until
\* the first session description, negotiating until ICE and the media setup
\* are done, closed after a detach
HandleState(h) ==
    IF hrec[h].state = "closed" THEN "closed"
    ELSE IF hrec[h].app = "" \/ hrec[h].app_handle = NULL THEN "fresh"
    ELSE IF media[h] = "none" THEN "attached"
    ELSE IF media[h] = "negotiating" THEN "negotiating"
    ELSE "media-ready"

\* ICE reports its candidates done and the media are set up (ice.c)
janus_ice_candidates_done ==
    /\ workload = "media"
    /\ \E h \in HRefs :
         /\ hrec[h].state = "live"
         /\ media[h] = "negotiating"
         /\ media' = [media EXCEPT ![h] = "ready"]
    /\ UNCHANGED <<sessions, srec, hrec, psess, ncreate, ndestroy, stop, mainpc,
                   pc, req, loc, resp, nextEv, evs, delivered, lastret,
                   overlapped, serial, workload, hist, relay>>
    /\ UNCHANGED pvars
    /\ UNCHANGED lvars
    /\ UNCHANGED uvars
    /\ UNCHANGED xvars

\* the handle tokens a plugin can pass to a callback: those it was given by
\* create_session, and NULL
Tokens == {NULL} \cup {h \in HRefs : ncreate[h] > 0 /\ psess[h] # "none"}

\* faulty variant: bytes are forwarded for every handle that is not closed
janus_ice_relay_open(h) == HandleState(h) # "closed"

\* janus_ice_relay_rtp and janus_ice_relay_rtcp (ice.c): bytes are forwarded
\* for a handle whose media are ready, and dropped otherwise
janus_ice_relay(h) == HandleState(h) = "media-ready"

\* lines 1058-1074: nothing is done for a NULL token or a token without a
\* gateway handle; otherwise the packet is handed to the ICE code
janus_relay(token, kind) ==
    /\ workload = "media"
    /\ relay' = [relay EXCEPT ![kind] =
                    IF token = NULL \/ hrec[token].state = "free"
                    THEN [called |-> TRUE, handle |-> NULL, state |-> "",
                          forwarded |-> FALSE]
                    ELSE [called |-> TRUE, handle |-> token,
                          state |-> HandleState(token),
                          forwarded |-> janus_ice_relay(token)]]
    /\ UNCHANGED <<sessions, srec, hrec, psess, ncreate, ndestroy, stop, mainpc,
                   pc, req, loc, resp, nextEv, evs, delivered, lastret,
                   overlapped, serial, workload, hist, media>>
    /\ UNCHANGED pvars
    /\ UNCHANGED lvars
    /\ UNCHANGED uvars
    /\ UNCHANGED xvars

janus_relay_rtp == \E token \in Tokens : janus_relay(token, "rtp")

janus_relay_rtcp == \E token \in Tokens : janus_relay(token, "rtcp")

(***************************************************************************)
(* Session descriptions of a plugin: janus_push_event with an sdp_type and *)
(* an sdp, janus_handle_sdp and its wait for the candidates of the agent   *)
(***************************************************************************)
\* the sdp_type a plugin passes, and what janus_sdp_preparse and
\* janus_sdp_anonymize make of its sdp
PluginSdpTypes == {"offer", "answer", "other"}
PluginSdps == {"valid", "nopreparse", "noanonymize"}

\* janus_ice_setup_local (ice.c): a new agent is created for the handle and
\* starts to gather the candidates of the streams of the description
janus_ice_setup_local_agent(h, offer, streams) ==
    [ice EXCEPT ![h] = [@ EXCEPT !.nlocal = IF @ < MaxLocal THEN @ + 1 ELSE @,
                                 !.offer = offer,
                                 !.streams_num = streams,
                                 !.cdone = 0]]

\* lines 664-673 and 1040-1049: janus_ice_setup_remote_candidate for
\* components 1 and 2 of the audio and of the video stream, when the local
\* setup has given the stream an id
janus_ice_setup_remote_candidates(h) ==
    [ice EXCEPT ![h].remote =
        @ \cup {<<st, c>> : st \in 1..ice[h].streams_num, c \in {1, 2}}]


\* line 1013: the condition of the wait loop
candidates_wait_over(h) == ~(ice[h].cdone < ice[h].streams_num)

\* the plugin thread is between the call of janus_push_event and its return
InHandleSdp == pwait.pc \in {"waiting", "sleeping"}

\* what the sdp of the call in progress is to janus_push_event
HandledSdp == IF pwait.sdp = "valid" THEN "valid" ELSE "invalid"

SdpFrame ==
    /\ UNCHANGED <<sessions, hrec, psess, ncreate, ndestroy, stop, mainpc, pc, req,
                   loc, resp, delivered, lastret, overlapped, serial, workload,
                   hist, nextMsg, mrec, pmsgs, hthread, vsess, users, steps, conn,
                   inq>>
    /\ UNCHANGED mvars
    /\ UNCHANGED lvars
    /\ UNCHANGED uvars

\* lines 944-951 and 984-1012: the plugin calls janus_push_event with a
\* session description; an sdp_type other than offer and answer and an sdp
\* janus_sdp_preparse refuses end the call, an offer sets up the local agent
\* (second argument 0), and the wait begins
janus_handle_sdp_call ==
    /\ workload \in {"event", "stop"}
    /\ stop < 3
    /\ \A t \in Threads : pc[t] = "idle"
    /\ pwait.pc \in {"idle", "returned"}
    /\ \E h \in HRefs, type \in PluginSdpTypes, sdp \in PluginSdps,
          streams \in 1..MaxStreams :
         /\ psess[h] = "live"
         /\ hrec[h].session # NULL
         /\ hrec[h].handle_id = 1
         /\ workload = "stop" => (type = "offer" /\ sdp = "valid" /\ streams = 1)
         /\ IF type = "other" \/ sdp = "nopreparse"
            THEN /\ pwait' = [pc |-> "returned", handle |-> h, type |-> type,
                              sdp |-> sdp, ret |-> "JSEP_INVALID_SDP"]
                 /\ ice' = ice
            ELSE /\ pwait' = [pc |-> "waiting", handle |-> h, type |-> type,
                              sdp |-> sdp, ret |-> ""]
                 /\ ice' = IF type = "offer"
                           THEN janus_ice_setup_local_agent(h, 0, streams)
                           ELSE ice
    /\ late' = LoopEntered("candidates")
    /\ UNCHANGED <<srec, nextEv, evs, evinfo, pushret>>
    /\ SdpFrame

\* line 1013 and, when the wait is over, lines 1022-1055 and 952-982: the
\* description is anonymized and merged, an answer submits the remote
\* candidates of the streams, and the event is queued
janus_handle_sdp_check ==
    /\ stop < 3
    /\ pwait.pc = "waiting"
    /\ LET h == pwait.handle IN
       IF candidates_wait_over(h)
       THEN /\ pwait' = [pwait EXCEPT
                            !.pc = "returned",
                            !.ret = janus_push_event_result(h, "object",
                                                            HandledSdp)]
            /\ ice' = IF pwait.sdp = "valid" /\ pwait.type = "answer"
                      THEN janus_ice_setup_remote_candidates(h) ELSE ice
            /\ janus_push_event_call(h, NULL, "object", HandledSdp, NULL)
            /\ late' = late
       ELSE /\ pwait' = [pwait EXCEPT !.pc = "sleeping"]
            /\ late' = LateIteration("candidates")
            /\ UNCHANGED <<srec, nextEv, evs, evinfo, pushret, ice>>
    /\ SdpFrame

\* lines 1015-1019: after the sleep, a failure of the agent ends the call
janus_handle_sdp_sleep ==
    /\ stop < 3
    /\ pwait.pc = "sleeping"
    /\ pwait' = IF ice[pwait.handle].cdone < 0
                THEN [pwait EXCEPT !.pc = "returned",
                                   !.ret = "JSEP_INVALID_SDP"]
                ELSE [pwait EXCEPT !.pc = "waiting"]
    /\ UNCHANGED <<srec, nextEv, evs, evinfo, pushret, ice, late>>
    /\ SdpFrame

\* the agent reports the candidates of one more stream done (ice.c)
janus_ice_cb_candidate_gathering_done ==
    /\ workload \in SdpWorkloads
    /\ \E h \in HRefs :
         /\ ice[h].cdone >= 0
         /\ ice[h].cdone < ice[h].streams_num
         /\ ice' = [ice EXCEPT ![h].cdone = @ + 1]
    /\ UNCHANGED <<srec, nextEv, evs, evinfo, pushret, pwait, late>>
    /\ SdpFrame

\* the agent reports that it could not gather candidates (ice.c)
janus_ice_gathering_failed ==
    /\ workload \in SdpWorkloads
    /\ \E h \in HRefs :
         /\ ice[h].cdone >= 0
         /\ ice[h].cdone < ice[h].streams_num
         /\ ice' = [ice EXCEPT ![h].cdone = -1]
    /\ UNCHANGED <<srec, nextEv, evs, evinfo, pushret, pwait, late>>
    /\ SdpFrame

\* C31: the wait of janus_handle_sdp is bounded: a janus_push_event call with
\* a session description always returns (unless the process exits first),
\* whatever the agent reports or fails to report, and it returns
\* JSEP_INVALID_SDP when the wait finds that the agent has failed
C31_SdpWaitBounded ==
    /\ InHandleSdp ~> (pwait.pc = "returned" \/ stop > 2)
    /\ [][(pwait.pc = "sleeping" /\ ice[pwait.handle].cdone < 0)
            => (pwait'.pc = "returned" => pwait'.ret = "JSEP_INVALID_SDP")]_vars

\* C32: once the stop flag is set, each polling loop (the long poll, the
\* wait for the candidates, the videocall thread) begins at most one more
\* iteration
C32_LoopsSeeStop == \A l \in Loops : late[l] <= 1

\* C35: whatever messages of the endpoint and events of the plugin a handle
\* sees, janus_ice_setup_local is called at most once for it: an offer of the
\* plugin sets the local agent up only when the handle has none yet
C35_LocalSetupOnce == \A h \in HRefs : ice[h].nlocal <= 1

\* what only janus_push_event changes
PushFrame ==
    UNCHANGED <<sessions, hrec, psess, ncreate, ndestroy, stop, mainpc, pc, req,
                loc, resp, delivered, lastret, overlapped, serial, workload, hist,
                nextMsg, mrec, media, relay, plugdir, nread, registry, ninit,
                url, route, ice, steps, pwait, conn, inq, late>>

\* janus_videocall_handler, line 357: g_queue_pop_head(messages), first half
\* lines 356-360 with an empty queue: the loop test, g_queue_pop_head that
\* returns NULL, usleep and continue
handler_idle ==
    /\ workload = "stop"
    /\ stop < 3
    /\ hthread.pc = "wait"
    /\ mainpc # "closing"
    /\ g_queue_head(pmsgs) = NULL
    /\ late' = LateIteration("worker")
    /\ UNCHANGED <<sessions, srec, hrec, psess, ncreate, ndestroy, stop, mainpc,
                   pc, req, loc, resp, nextEv, evs, delivered, lastret, overlapped,
                   serial, workload, hist, ice, steps, pwait, conn, inq>>
    /\ UNCHANGED pvars
    /\ UNCHANGED mvars
    /\ UNCHANGED uvars
    /\ UNCHANGED lvars

\* line 356 after janus_videocall_destroy has set stopping: the thread leaves
\* its loop
handler_exit ==
    /\ workload = "stop"
    /\ stop < 3
    /\ hthread.pc = "wait"
    /\ mainpc = "closing"
    /\ hthread' = [hthread EXCEPT !.pc = "exited"]
    /\ UNCHANGED <<sessions, srec, hrec, psess, ncreate, ndestroy, stop, mainpc,
                   pc, req, loc, resp, nextEv, evs, delivered, lastret, overlapped,
                   serial, workload, hist, nextMsg, mrec, pmsgs, evinfo, pushret,
                   vsess, users>>
    /\ UNCHANGED mvars
    /\ UNCHANGED uvars
    /\ UNCHANGED lvars
    /\ UNCHANGED xvars

handler_pop ==
    /\ stop < 3
    /\ hthread.pc = "wait"
    /\ g_queue_head(pmsgs) # NULL
    /\ hthread' = [NoHandler EXCEPT !.pc = "unlink", !.msg = g_queue_head(pmsgs),
                                     !.nxt = g_queue_head_next(pmsgs)]
    /\ UNCHANGED <<sessions, srec, hrec, psess, ncreate, ndestroy, stop, mainpc,
                   pc, req, loc, resp, nextEv, evs, delivered, lastret, overlapped,
                   serial, workload, hist, nextMsg, mrec, pmsgs, evinfo, pushret,
                   vsess, users>>
    /\ UNCHANGED mvars
    /\ UNCHANGED uvars
    /\ UNCHANGED lvars
    /\ UNCHANGED xvars

\* second half of the pop, and lines 361-367: a message whose handle has no
\* plugin session is skipped; one whose plugin session was freed by
\* destroy_session is read from freed memory, and is skipped or handled
handler_unlink ==
    /\ stop < 3
    /\ hthread.pc = "unlink"
    /\ \E q2 \in g_queue_unlink(pmsgs, hthread.nxt) : pmsgs' = q2
    /\ LET h == mrec[hthread.msg].handle IN
        \E go \in (IF psess[h] = "live" THEN {TRUE}
                   ELSE IF psess[h] = "freed" THEN {TRUE, FALSE} ELSE {FALSE}) :
            hthread' = IF go THEN [hthread EXCEPT !.pc = "handle"] ELSE NoHandler
    /\ UNCHANGED <<sessions, srec, hrec, psess, ncreate, ndestroy, stop, mainpc,
                   pc, req, loc, resp, nextEv, evs, delivered, lastret, overlapped,
                   serial, workload, hist, nextMsg, mrec, evinfo, pushret, vsess,
                   users>>
    /\ UNCHANGED mvars
    /\ UNCHANGED uvars
    /\ UNCHANGED lvars
    /\ UNCHANGED xvars

\* what janus_videocall_handler makes of message m (lines 368-597): whether
\* it is dropped, the session it notifies (NULL for none), the usernames and
\* calls it leaves, and whether the event it ends with is an error (goto
\* error).  The lookup of a call (line 454) does not exclude the
\* caller: a session that calls its own username becomes its own peer.
Handled(m) ==
    LET s == mrec[m].handle
        request == mrec[m].message.request
        u == mrec[m].message.username
        same == [drop |-> FALSE, notify |-> NULL, vsess |-> vsess, users |-> users,
                 error |-> FALSE]
        failed == [same EXCEPT !.error = TRUE]
    IN
    IF request = "register"
    THEN IF vsess[s].username # 0 \/ users[u] # NULL THEN failed
         ELSE [same EXCEPT !.vsess = [vsess EXCEPT ![s].username = u],
                           !.users = [users EXCEPT ![u] = s]]
    ELSE IF request = "call"
    THEN IF vsess[s].peer # NULL \/ users[u] = NULL THEN failed
         ELSE IF vsess[users[u]].peer # NULL \/ ~mrec[m].sdp THEN failed
         ELSE [same EXCEPT !.notify = users[u],
                           !.vsess = [vsess EXCEPT ![s].peer = users[u],
                                                   ![users[u]].peer = s]]
    ELSE IF request = "accept"
    THEN IF vsess[s].peer = NULL \/ ~mrec[m].sdp THEN failed
         ELSE [same EXCEPT !.notify = vsess[s].peer]
    ELSE IF request = "hangup"
    THEN IF vsess[s].peer = NULL THEN [same EXCEPT !.drop = TRUE]
         ELSE [same EXCEPT !.notify = vsess[s].peer,
                           !.vsess = [vsess EXCEPT ![s].peer = NULL,
                                                   ![vsess[s].peer].peer = NULL]]
    ELSE same

\* lines 487, 517, 593: the notice to the peer (incomingcall, accepted,
\* hangup), pushed with no transaction and, but for a hangup, with the SDP of
\* the message
handler_peer ==
    /\ stop < 3
    /\ hthread.pc = "handle"
    /\ ~hthread.peer
    /\ Handled(hthread.msg).notify # NULL
    /\ vsess' = Handled(hthread.msg).vsess
    /\ users' = Handled(hthread.msg).users
    /\ \E sdp \in (IF mrec[hthread.msg].message.request = "hangup"
                   THEN {"none"} ELSE {"valid", "invalid"}) :
            janus_push_event_call(Handled(hthread.msg).notify, NULL, "object",
                                  sdp, hthread.msg)
    /\ hthread' = [hthread EXCEPT !.peer = TRUE]
    /\ pmsgs' = pmsgs
    /\ PushFrame

\* lines 599-627: the result, or the error, of the request is pushed to the
\* handle of the message with the transaction of the message
handler_reply ==
    /\ stop < 3
    /\ hthread.pc = "handle"
    /\ hrec[mrec[hthread.msg].handle].session # NULL
    /\ IF hthread.peer
       THEN UNCHANGED <<vsess, users>>
       ELSE /\ Handled(hthread.msg).notify = NULL
            /\ ~Handled(hthread.msg).drop
            /\ vsess' = Handled(hthread.msg).vsess
            /\ users' = Handled(hthread.msg).users
    /\ janus_push_event_call(mrec[hthread.msg].handle,
                             mrec[hthread.msg].transaction, "object", "none",
                             hthread.msg)
    /\ hthread' = NoHandler
    /\ pmsgs' = pmsgs
    /\ PushFrame

\* line 571: a hangup with no call to hang up is dropped without an event
handler_drop ==
    /\ stop < 3
    /\ hthread.pc = "handle"
    /\ ~hthread.peer
    /\ Handled(hthread.msg).drop
    /\ hthread' = NoHandler
    /\ UNCHANGED <<sessions, srec, hrec, psess, ncreate, ndestroy, stop, mainpc,
                   pc, req, loc, resp, nextEv, evs, delivered, lastret, overlapped,
                   serial, workload, hist, nextMsg, mrec, pmsgs, evinfo, pushret,
                   vsess, users>>
    /\ UNCHANGED mvars
    /\ UNCHANGED uvars
    /\ UNCHANGED lvars
    /\ UNCHANGED xvars

\* janus_videocall_hangup_media as a callback of its own (lines 313-345),
\* called by the gateway when the media of a handle goes down: the peer is
\* sent the hangup notice and session->peer is cleared; peer->peer is not
\* written.  Without a peer the call only resets the controls.
janus_videocall_hangup_media(h) ==
    /\ workload = "peer"
    /\ stop < 3
    /\ serial => \A t \in Threads : pc[t] = "idle"
    /\ hthread.pc = "wait"
    /\ psess[h] = "live"
    /\ vsess[h].peer # NULL
    /\ IF psess[vsess[h].peer] = "live" /\ hrec[vsess[h].peer].session # NULL
       THEN janus_push_event_call(vsess[h].peer, NULL, "object", "none", NULL)
       ELSE UNCHANGED <<srec, nextEv, evs, evinfo, pushret>>
    /\ vsess' = [vsess EXCEPT ![h].peer = NULL]
    /\ UNCHANGED <<sessions, hrec, psess, ncreate, ndestroy, stop, mainpc, pc, req,
                   loc, resp, delivered, lastret, overlapped, serial, workload,
                   hist, nextMsg, mrec, pmsgs, hthread, users>>
    /\ UNCHANGED mvars
    /\ UNCHANGED uvars
    /\ UNCHANGED lvars
    /\ UNCHANGED xvars

\* C40: the peer relation of the videocall plugin is symmetric: for all live
\* sessions A and B, A's peer is B if and only if B's peer is A.
C40_PeerSymmetric ==
    \A a, b \in HRefs :
        (psess[a] = "live" /\ psess[b] = "live")
            => (vsess[a].peer = b <=> vsess[b].peer = a)

push_event == \E h \in HRefs, kind \in MessageKinds : janus_push_event(h, kind)

(***************************************************************************)
(* Shutdown                                                                *)
(***************************************************************************)
\* janus_handle_signal: stop++, and exit(1) at the third signal (stop = 3 is
\* the exited process: no action is enabled any more)
janus_handle_signal ==
    /\ stop < 3
    /\ stop' = stop + 1
    /\ UNCHANGED <<sessions, srec, hrec, psess, ncreate, ndestroy, mainpc, pc, req,
                   loc, resp, nextEv, evs, delivered, lastret, overlapped, serial,
                   workload, hist>>
    /\ UNCHANGED pvars
    /\ UNCHANGED mvars
    /\ UNCHANGED uvars
    /\ UNCHANGED lvars
    /\ UNCHANGED xvars

\* main leaves while(!stop) and calls MHD_stop_daemon: no new request is taken
main_stop ==
    /\ stop \in 1..2
    /\ mainpc = "serve"
    /\ mainpc' = "stopped"
    /\ UNCHANGED <<sessions, srec, hrec, psess, ncreate, ndestroy, stop, pc, req,
                   loc, resp, nextEv, evs, delivered, lastret, overlapped, serial,
                   workload, hist>>
    /\ UNCHANGED pvars
    /\ UNCHANGED mvars
    /\ UNCHANGED uvars
    /\ UNCHANGED lvars
    /\ UNCHANGED xvars

\* lines 1514-1537 and janus_videocall_destroy, lines 155-158: the web
\* server is stopped when its connection threads are done, then the plugins
\* are closed and the videocall plugin sets stopping
janus_plugin_close ==
    /\ workload = "stop"
    /\ stop \in 1..2
    /\ mainpc = "stopped"
    /\ \A t \in Threads : pc[t] = "idle"
    /\ mainpc' = "closing"
    /\ UNCHANGED <<sessions, srec, hrec, psess, ncreate, ndestroy, stop, pc, req,
                   loc, resp, nextEv, evs, delivered, lastret, overlapped, serial,
                   workload, hist>>
    /\ UNCHANGED pvars
    /\ UNCHANGED mvars
    /\ UNCHANGED uvars
    /\ UNCHANGED lvars
    /\ UNCHANGED xvars

\* janus_ws_request_completed: the request context is freed
janus_ws_request_completed(t) ==
    /\ pc[t] = "responded"
    /\ stop < 3
    /\ pc' = [pc EXCEPT ![t] = "idle"]
    /\ req' = [req EXCEPT ![t] = NoReq]
    /\ loc' = [loc EXCEPT ![t] = NoLoc]
    /\ resp' = [resp EXCEPT ![t] = NoResp]
    /\ UNCHANGED <<sessions, srec, hrec, psess, ncreate, ndestroy, stop, mainpc,
                   nextEv, evs, delivered, lastret, overlapped, serial, workload,
                   hist>>
    /\ UNCHANGED pvars
    /\ UNCHANGED mvars
    /\ UNCHANGED uvars
    /\ UNCHANGED lvars
    /\ UNCHANGED xvars

LifecycleStep(t) ==
    \/ janus_ws_handler(t)
    \/ janus_session_create_draw(t)
    \/ janus_session_create_insert(t)
    \/ post_find(t)
    \/ destroy_request(t)
    \/ janus_ice_handle_create(t)
    \/ attach_plugin(t)
    \/ detach_request(t)
    \/ janus_ws_request_completed(t)

Next == \E t \in Threads : LifecycleStep(t)

\* the steps of a connection thread that serves a GET
LongPollStep(t) ==
    \/ get_find(t)
    \/ get_pop(t)
    \/ get_unlink(t)
    \/ notif_find(t)
    \/ notif_loop(t)
    \/ notif_unlink(t)

PollStep(t) ==
    \/ janus_ws_handler(t)
    \/ get_find(t)
    \/ get_pop(t)
    \/ get_unlink(t)
    \/ notif_find(t)
    \/ notif_loop(t)
    \/ notif_unlink(t)
    \/ janus_ws_request_completed(t)

PollNext ==
    \/ \E t \in Threads : PollStep(t)
    \/ push_event
    \/ janus_handle_signal
    \/ main_stop

(***************************************************************************)
(* Properties of the long poll                                             *)
(***************************************************************************)
Moved(t) == pc'[t] # pc[t] \/ loc'[t] # loc[t]

Waiting(t) == pc[t] \in {"notif_loop", "notif_unlink"}

C3_AtMostOnce == \A e \in Events : delivered[e] <= 1

\* an event a GET has dequeued and not yet answered with
InFlight(e) ==
    \E t \in Threads : pc[t] \in {"get_unlink", "notif_unlink"} /\ loc[t].node = e

\* C4: no event is lost on a live session: every event push_event enqueued
\* has been returned, is being returned, or is still in the queue of its
\* session for the next GET.
C4_NoEventLost ==
    \A e \in 1..nextEv :
        srec[evs[e]].destroy = 0 =>
            \/ delivered[e] > 0
            \/ InFlight(e)
            \/ e \in Range(srec[evs[e]].messages)

\* C5: an iteration of the wait that finds the queue empty changes neither
\* the queue nor the session table; it sleeps again while the ceiling is not
\* reached (and no shutdown is under way), and once the ceiling is reached the
\* GET returns the keep-alive payload and no event; and every wait ends
\* (unless the process exits first).
C5_LongPollTimeout ==
    /\ [][\A t \in Threads :
            (/\ pc[t] = "notif_loop" /\ Moved(t)
             /\ srec[loc[t].sess].messages = <<>>)
                => /\ UNCHANGED <<sessions, srec, delivered>>
                   /\ IF loc[t].elapsed >= PollCeiling \/ stop # 0
                      THEN pc'[t] = "responded" /\ resp'[t] = KeepAlive
                      ELSE /\ pc'[t] = "notif_loop"
                           /\ loc'[t].elapsed > loc[t].elapsed
                           /\ loc'[t].elapsed <= PollCeiling]_vars
    /\ \A t \in Threads : Waiting(t) ~> (pc[t] = "responded" \/ stop = 3)

\* a GET slept up to the ceiling on an empty queue and returned the keep-alive
C5_Witness ==
    \E t \in Threads :
        /\ pc[t] = "responded" /\ resp[t] = KeepAlive
        /\ loc[t].elapsed = PollCeiling /\ stop = 0
        /\ srec[loc[t].sess].messages = <<>>

\* C6 as stated: once the stop flag is set, a waiting long poll that responds
\* responds with the keep-alive payload.
C6_StopGivesKeepAlive ==
    [][\A t \in Threads :
        (stop # 0 /\ Waiting(t) /\ pc'[t] = "responded")
            => resp'[t] = KeepAlive]_vars

\* C6 as amended: once the stop flag is set, a waiting long poll sleeps no
\* more: its next iteration ends the wait, with the keep-alive payload when
\* it dequeues nothing and with the event it dequeued otherwise; and that
\* iteration does come (unless the process exits first).
C6_StopEndsWait ==
    /\ [][\A t \in Threads :
            (stop # 0 /\ Waiting(t) /\ Moved(t))
                => IF pc[t] = "notif_unlink"
                   THEN pc'[t] = "responded" /\ resp'[t] = EventResp(loc[t].node)
                   ELSE IF srec[loc[t].sess].messages = <<>>
                           \/ loc[t].elapsed >= PollCeiling
                   THEN pc'[t] = "responded" /\ resp'[t] = KeepAlive
                   ELSE pc'[t] = "notif_unlink"]_vars
    /\ \A t \in Threads :
            (stop # 0 /\ Waiting(t)) ~> (pc[t] = "responded" \/ stop = 3)

\* a long poll that was asleep when the flag was set has returned the
\* keep-alive before its ceiling
C6_Witness ==
    \E t \in Threads :
        /\ stop # 0
        /\ pc[t] = "responded" /\ resp[t] = KeepAlive
        /\ loc[t].elapsed > 0 /\ loc[t].elapsed < PollCeiling

(***************************************************************************)
(* Properties of the dispatch: one request at a time, each answered        *)
(* request holding the tables it found in loc[t].pre                       *)
(***************************************************************************)
Answered(t) == pc[t] = "responded" /\ loc[t].pre # <<>>

\* the session records a request found
PreRecords(t) == loc[t].pre[2]

\* the request of t names a session that a destroy had flagged when the
\* request arrived, and no session that was not flagged had its id
DestroyedBefore(t) ==
    /\ req[t].sid # 0
    /\ \E r \in SRefs :
        /\ PreRecords(t)[r].alloc
        /\ PreRecords(t)[r].destroy = 1
        /\ PreRecords(t)[r].session_id = req[t].sid
    /\ \A r \in SRefs :
        ~(/\ PreRecords(t)[r].alloc
          /\ PreRecords(t)[r].destroy = 0
          /\ PreRecords(t)[r].session_id = req[t].sid)

\* C12: after the destroy of a session has returned success, every later
\* request addressed to that session fails and changes nothing: a GET on its
\* path gets HTTP 404, a POST whose envelope is complete gets
\* SESSION_NOT_FOUND, and neither the tables nor the plugin (no callback was
\* made) are as the request did not find them.
C12_DestroyedSessionIsGone ==
    \A t \in Threads :
        (Answered(t) /\ DestroyedBefore(t)) =>
            /\ resp[t].kind \in {"http", "error"}
            /\ (req[t].method = "GET" /\ req[t].hid = 0) => resp[t] = HttpResp(404)
            /\ (req[t].method = "POST" /\ req[t].envelope = "ok")
                    => resp[t] = ErrorResp("SESSION_NOT_FOUND")
            /\ Tables = loc[t].pre

\* an attach was sent to a destroyed session, and turned away
C12_Witness ==
    \E t \in Threads :
        /\ Answered(t)
        /\ DestroyedBefore(t)
        /\ req[t].method = "POST"
        /\ req[t].verb = "attach"
        /\ resp[t] = ErrorResp("SESSION_NOT_FOUND")

\* the session and the handle the path of the request named when it arrived
PreSession(t) == IF req[t].sid # 0 THEN loc[t].pre[1][req[t].sid] ELSE NULL

PreHandle(t) ==
    IF PreSession(t) # NULL /\ req[t].hid # 0
    THEN PreRecords(t)[PreSession(t)].ice_handles[req[t].hid]
    ELSE NULL

\* the path names a session, or a handle, that is not there
PathNotFound(t) ==
    /\ req[t].sid # 0
    /\ PreSession(t) = NULL \/ (req[t].hid # 0 /\ PreHandle(t) = NULL)

\* an answered POST on a session or handle path
AnsweredPost(t) == Answered(t) /\ req[t].method = "POST" /\ req[t].sid # 0

KnownVerbs == {"create", "attach", "destroy", "detach", "message"}

\* the verb is not one of the path of the request
WrongScopeVerb(r) ==
    \/ r.verb = "create"
    \/ r.verb \in {"attach", "destroy"} /\ r.hid # 0
    \/ r.verb \in {"detach", "message"} /\ r.hid = 0

\* C13 as stated: on a session or handle path an unknown verb yields
\* UNKNOWN_REQUEST and a verb at the wrong scope INVALID_REQUEST_PATH even
\* when the session or the handle of the path does not exist, and
\* SESSION_NOT_FOUND and HANDLE_NOT_FOUND are returned only when the envelope
\* and the verb have passed their checks.
C13_VerbBeforeLookup ==
    \A t \in Threads :
        (AnsweredPost(t) /\ req[t].envelope = "ok" /\ PathNotFound(t)) =>
            /\ req[t].verb \notin KnownVerbs
                    => resp[t] = ErrorResp("UNKNOWN_REQUEST")
            /\ (req[t].verb \in KnownVerbs /\ WrongScopeVerb(req[t]))
                    => resp[t] = ErrorResp("INVALID_REQUEST_PATH")
            /\ resp[t].code \in {"SESSION_NOT_FOUND", "HANDLE_NOT_FOUND"}
                    => (req[t].verb \in KnownVerbs /\ ~WrongScopeVerb(req[t]))

\* C13, amended: on a session or handle path the envelope is checked first,
\* the session and the handle are looked up next, and the verb is examined
\* last.  A broken envelope yields its own error whatever the path names; with
\* a complete envelope a session that is not in the table yields
\* SESSION_NOT_FOUND and a handle that is not in the session's table
\* HANDLE_NOT_FOUND, whatever the verb; UNKNOWN_REQUEST and
\* INVALID_REQUEST_PATH are returned only when what the path names exists.
C13_LookupBeforeVerb ==
    \A t \in Threads :
        AnsweredPost(t) =>
            /\ req[t].envelope # "ok" => resp[t] = ErrorResp(EnvelopeError(req[t]))
            /\ (req[t].envelope = "ok" /\ PreSession(t) = NULL)
                    => resp[t] = ErrorResp("SESSION_NOT_FOUND")
            /\ (/\ req[t].envelope = "ok" /\ PreSession(t) # NULL
                 /\ req[t].hid # 0 /\ PreHandle(t) = NULL)
                    => resp[t] = ErrorResp("HANDLE_NOT_FOUND")
            /\ resp[t].code \in {"UNKNOWN_REQUEST", "INVALID_REQUEST_PATH"}
                    => ~PathNotFound(t)

\* an unknown verb was posted to a session that does not exist, and got
\* SESSION_NOT_FOUND
C13_Witness ==
    \E t \in Threads :
        /\ AnsweredPost(t)
        /\ req[t].envelope = "ok"
        /\ PreSession(t) = NULL
        /\ req[t].verb = "nope"
        /\ resp[t] = ErrorResp("SESSION_NOT_FOUND")

\* the verb of the request is at the wrong scope of a path that exists
WrongScope(t) ==
    \/ req[t].sid = 0 /\ req[t].verb # "create"
    \/ PreHandle(t) # NULL /\ req[t].verb \in {"attach", "destroy"}
    \/ /\ PreSession(t) # NULL /\ req[t].hid = 0
       /\ req[t].verb \in {"detach", "message"}

\* C14: a verb posted at the wrong scope is rejected with INVALID_REQUEST_PATH
\* and changes nothing: attach or destroy on the path of an existing handle,
\* detach or message on the path of an existing session, and every verb but
\* create on the base path leave the session table, the handle tables and
\* the event queues as they were, and no plugin callback is made.
C14_WrongScopeRejected ==
    \A t \in Threads :
        (/\ Answered(t) /\ req[t].method = "POST" /\ req[t].envelope = "ok"
         /\ WrongScope(t)) =>
            /\ resp[t] = ErrorResp("INVALID_REQUEST_PATH")
            /\ Tables = loc[t].pre

\* a destroy was posted on the path of a handle that exists, in a session
\* that holds it
C14_Witness ==
    \E t \in Threads :
        /\ Answered(t)
        /\ req[t].method = "POST"
        /\ req[t].verb = "destroy"
        /\ PreHandle(t) # NULL
        /\ resp[t] = ErrorResp("INVALID_REQUEST_PATH")

\* C15: a create posted on the path of an existing session, or of an existing
\* handle, is rejected with INVALID_REQUEST_PATH and creates no session.
C15_CreateOnSessionPath ==
    \A t \in Threads :
        (/\ AnsweredPost(t) /\ req[t].envelope = "ok" /\ req[t].verb = "create"
         /\ ~PathNotFound(t)) =>
            /\ resp[t] = ErrorResp("INVALID_REQUEST_PATH")
            /\ Tables = loc[t].pre

\* C16: an attach that names a package the registry does not hold returns
\* PLUGIN_NOT_FOUND, creates no handle (the handle table of the session, like
\* every table, is as it was) and makes no plugin callback.
C16_UnknownPlugin ==
    \A t \in Threads :
        (/\ AnsweredPost(t) /\ req[t].envelope = "ok" /\ req[t].verb = "attach"
         /\ PreSession(t) # NULL /\ req[t].hid = 0
         /\ req[t].plugin \notin plugins) =>
            /\ resp[t] = ErrorResp("PLUGIN_NOT_FOUND")
            /\ Tables = loc[t].pre

\* an attach named an unknown package in a session that held a handle
C16_Witness ==
    \E t \in Threads :
        /\ AnsweredPost(t)
        /\ req[t].verb = "attach"
        /\ req[t].plugin \notin plugins
        /\ PreSession(t) # NULL
        /\ \E i \in HandleIds : PreRecords(t)[PreSession(t)].ice_handles[i] # NULL
        /\ resp[t] = ErrorResp("PLUGIN_NOT_FOUND")

\* a request on the handle path the last request left in the history is
\* being answered
AnswersOnRemembered(t) ==
    /\ pc[t] # "responded"
    /\ pc'[t] = "responded"
    /\ req'[t].method = "POST"
    /\ req'[t].envelope = "ok"
    /\ req'[t].sid = hist.sid
    /\ req'[t].hid = hist.id

\* C17: when the plugin's create_session fails during an attach, the request
\* returns PLUGIN_ATTACH and the handle is rolled back: the handle table of
\* the session is what it was before the request, the handle id that was
\* drawn is not in it, and the request that follows cannot address that id
\* (a POST on its path gets HANDLE_NOT_FOUND).
C17_FailedAttachRolledBack ==
    /\ [](\A t \in Threads :
            (Answered(t) /\ req[t].verb = "attach" /\ loc[t].hnd # NULL
             /\ ncreate[loc[t].hnd] > loc[t].pre[5][loc[t].hnd]
             /\ psess[loc[t].hnd] # "live") =>
                /\ resp[t] = ErrorResp("PLUGIN_ATTACH")
                /\ srec[loc[t].sess].ice_handles
                        = PreRecords(t)[loc[t].sess].ice_handles
                /\ srec[loc[t].sess].ice_handles[loc[t].id] = NULL)
    /\ [][\A t \in Threads :
            (hist.law = "attach failed" /\ AnswersOnRemembered(t))
                => resp'[t] = ErrorResp("HANDLE_NOT_FOUND")]_vars

\* an attach failed in the plugin, in a session that held another handle
C17_Witness ==
    \E t \in Threads :
        /\ Answered(t)
        /\ req[t].verb = "attach"
        /\ resp[t] = ErrorResp("PLUGIN_ATTACH")
        /\ \E i \in HandleIds : PreRecords(t)[loc[t].sess].ice_handles[i] # NULL

\* the detach of t called the plugin's destroy_session, which reported an
\* error and left its session as it was
DestroySessionFailed(t) ==
    /\ Answered(t)
    /\ req[t].verb = "detach"
    /\ loc[t].hnd # NULL
    /\ ndestroy[loc[t].hnd] > loc[t].pre[6][loc[t].hnd]
    /\ psess[loc[t].hnd] = "live"

\* C18: when the plugin's destroy_session reports an error during a detach,
\* the handle is removed from the handle table of its session all the same:
\* the request is answered PLUGIN_DETACH, the handle id is not in the table,
\* and a POST on the path of that handle that follows gets HANDLE_NOT_FOUND.
C18_FailedDetachRemovesHandle ==
    /\ [](\A t \in Threads :
            DestroySessionFailed(t) =>
                /\ resp[t] = ErrorResp("PLUGIN_DETACH")
                /\ srec[loc[t].sess].ice_handles[req[t].hid] = NULL)
    /\ [][\A t \in Threads :
            (/\ hist.law = "detach" /\ ndestroy[hist.ref] > 0
             /\ psess[hist.ref] = "live" /\ AnswersOnRemembered(t))
                => resp'[t] = ErrorResp("HANDLE_NOT_FOUND")]_vars

\* the plugin reported an error for the detach of a handle
C18_Witness == \E t \in Threads : DestroySessionFailed(t)

(***************************************************************************)
(* Properties of janus_push_event and of the plugin's messages             *)
(***************************************************************************)
\* the step is a call of janus_push_event: no connection thread moves
PushCalled == pc' = pc /\ loc' = loc /\ req' = req

\* C19: every call of push_event that returns another value than success
\* enqueues nothing: a message that is not valid JSON returns INVALID_JSON,
\* one that is valid JSON and no object INVALID_JSON_OBJECT, one whose SDP
\* cannot be handled JSEP_INVALID_SDP, and in each case the event queue of
\* every session is unchanged and no event was built.
C19_FailedPushEnqueuesNothing ==
    [][PushCalled =>
        /\ pushret'.kind = "invalid" => pushret'.ret = "INVALID_JSON"
        /\ pushret'.kind = "nonobject" => pushret'.ret = "INVALID_JSON_OBJECT"
        /\ (pushret'.kind = "object" /\ pushret'.sdp = "invalid")
                => pushret'.ret = "JSEP_INVALID_SDP"
        /\ pushret'.ret # "OK" =>
                /\ \A r \in SRefs : srec'[r].messages = srec[r].messages
                /\ nextEv' = nextEv
                /\ evs' = evs]_vars

\* a call failed with one of the three errors and found an event in the
\* queue of the session
C19_Witness ==
    /\ pushret.ret \in {"INVALID_JSON", "INVALID_JSON_OBJECT", "JSEP_INVALID_SDP"}
    /\ \E r \in SRefs : srec[r].messages # <<>>

\* the events the plugin pushed to the handle that sent message m, as the
\* result of m
EventsToSender(m) ==
    {e \in Events :
        /\ e <= nextEv
        /\ evinfo[e].cause = m
        /\ evinfo[e].sender = hrec[mrec[m].handle].handle_id}

\* C20: a message request with transaction T that is accepted is answered
\* with an ack that carries T, and every event the plugin later pushes to the
\* sending handle as the result of that message carries T.
C20_TransactionRoundTrip ==
    /\ \A t \in Threads :
        (pc[t] = "responded" /\ req[t].verb = "message" /\ resp[t].kind = "ack")
            => resp[t].val = req[t].transaction
    /\ \A m \in Messages :
        m <= nextMsg =>
            \A e \in EventsToSender(m) :
                evinfo[e].transaction = mrec[m].transaction

\* message m was answered: an event with its transaction, caused by it, is
\* or was on the queue of the session of its handle
Replied(m) ==
    \E e \in Events :
        /\ e <= nextEv
        /\ evinfo[e].cause = m
        /\ evinfo[e].sender = hrec[mrec[m].handle].handle_id
        /\ evinfo[e].transaction = mrec[m].transaction
        /\ evs[e] = hrec[mrec[m].handle].session

\* C21: every message the gateway has acknowledged for a handle attached to
\* the videocall plugin is eventually followed by an event with the same
\* transaction on the queue of the handle's session, whatever the request
\* (register, call, accept, hangup, or one that only gets a reply), provided
\* the plugin's thread keeps running, the handle is not detached and an event
\* can still be allocated.
C21_AckedMessageAnswered ==
    \A m \in Messages :
        (m <= nextMsg) ~> (Replied(m) \/ nextEv >= MaxEvents)

\* C26: a POST whose object has no string "transaction", the empty string as
\* "transaction", or no string "janus" is answered MISSING_MANDATORY_ELEMENT
\* on every path, and no table changes
C26_IncompleteEnvelopeRejected ==
    \A t \in Threads :
        (/\ Answered(t) /\ req[t].method = "POST"
         /\ req[t].envelope \in {"notransaction", "nojanus", EMPTY_TRANSACTION})
            => /\ resp[t] = ErrorResp("MISSING_MANDATORY_ELEMENT")
               /\ loc[t].pre = Tables
               /\ nextEv = 0

\* C27: a message on the path of an attached handle that has no "body" is
\* answered MISSING_MANDATORY_ELEMENT, and handle_message is not called
C27_MissingBodyRejected ==
    \A t \in Threads :
        (/\ Answered(t) /\ req[t].verb = "message" /\ req[t].envelope = "ok"
         /\ req[t].body = "missing"
         /\ PreHandle(t) # NULL
         /\ hrec[PreHandle(t)].app_handle # NULL)
            => /\ resp[t] = ErrorResp("MISSING_MANDATORY_ELEMENT")
               /\ nextMsg = loc[t].pre[7]

\* C29: once destroy_session has run for a handle, the videocall plugin does
\* not touch the state of that handle again: no message queued for it is
\* handled, and no other session has it as its peer
C29_DestroyedSessionUntouched ==
    \A h \in HRefs :
        psess[h] = "freed" =>
            /\ \A s \in HRefs \ {h} : psess[s] = "live" => vsess[s].peer # h
            /\ hthread.pc = "handle" => mrec[hthread.msg].handle # h

\* the thread ends the handling of a register message in this step
RegisterHandled ==
    /\ hthread.pc = "handle"
    /\ mrec[hthread.msg].message.request = "register"
    /\ hthread' = NoHandler

\* C30: a username of the table belongs to the one session that names it,
\* and a live session that has a username is the one the table gives for it;
\* a register enters the username when it is free and the session has none,
\* and otherwise ends in an error and leaves the table as it is; the
\* destroy_session of a session takes its username out of the table
C30_UsernameTable ==
    /\ [](\A u \in Usernames :
            users[u] # NULL => vsess[users[u]].username = u)
    /\ [](\A s \in HRefs :
            (psess[s] = "live" /\ vsess[s].username # 0)
                => users[vsess[s].username] = s)
    /\ [][RegisterHandled =>
            LET s == mrec[hthread.msg].handle
                u == mrec[hthread.msg].message.username
            IN IF users[u] = NULL /\ vsess[s].username = 0
               THEN /\ ~Handled(hthread.msg).error
                    /\ users' = [users EXCEPT ![u] = s]
               ELSE /\ Handled(hthread.msg).error
                    /\ users' = users]_vars
    /\ [][\A h \in HRefs :
            (psess[h] = "live" /\ psess'[h] = "freed" /\ vsess[h].username # 0)
                => users'[vsess[h].username] = NULL]_vars

\* the username of a session that was destroyed has been registered by
\* another session
C30_Witness ==
    \E h, s \in HRefs :
        /\ psess[h] = "freed" /\ vsess[h].username # 0
        /\ psess[s] = "live" /\ s # h
        /\ users[vsess[h].username] = s

\* a connection thread serving a request of the lifecycle, or a GET on a
\* session whose queue is empty
RequestStep(t) ==
    \/ LifecycleStep(t)
    \/ get_find(t)
    \/ get_pop(t)
    \/ notif_find(t)
    \/ notif_loop(t)

DispatchNext == \E t \in Threads : RequestStep(t)

\* a connection thread serving a message
MsgStep(t) ==
    \/ janus_ws_handler(t)
    \/ post_find(t)
    \/ message_request(t)
    \/ janus_ws_request_completed(t)

MsgNext ==
    \/ \E t \in Threads : MsgStep(t)
    \/ handler_pop
    \/ handler_unlink
    \/ handler_peer
    \/ handler_reply
    \/ handler_drop

\* a step of janus_videocall_handler
WorkerStep ==
    \/ handler_pop
    \/ handler_unlink
    \/ handler_peer
    \/ handler_reply
    \/ handler_drop

\* a connection thread serving a message or a detach request
MediaStep(t) ==
    \/ janus_ws_handler(t)
    \/ post_find(t)
    \/ message_request(t)
    \/ detach_request(t)
    \/ janus_ws_request_completed(t)

MediaNext ==
    \/ \E t \in Threads : MediaStep(t)
    \/ janus_ice_candidates_done
    \/ janus_relay_rtp
    \/ janus_relay_rtcp

\* a connection thread serving a GET while the plugin makes no call: an
\* event is in the queue when the GET arrives, or none comes while it waits
PushStep(t) ==
    \/ janus_ws_handler(t)
    \/ get_find(t)
    \/ get_pop(t)
    \/ get_unlink(t)
    \/ notif_find(t)
    \/ notif_loop(t)
    \/ janus_ws_request_completed(t)

PushNext ==
    \/ \E t \in Threads : PushStep(t)
    \/ push_event

\* concurrent create, attach, detach and destroy requests
Spec == Init /\ [][Next]_vars
\* the same requests, one at a time
SeqSpec == SeqInit /\ [][Next]_vars
\* concurrent long polls, plugin events and the shutdown signal
PollSpec == PollInit /\ [][PollNext]_vars
\* every kind of request, one at a time
DispatchSpec == DispatchInit /\ [][DispatchNext]_vars
\* messages to the plugin and the events of its thread
MsgSpec == MsgInit /\ [][MsgNext]_vars
\* plugin events of every kind, and long polls
PushSpec == PushInit /\ [][PushNext]_vars
\* a connection thread serving a POST that names create, destroy, message
\* or no verb the gateway knows
EnvelopeStep(t) ==
    \/ janus_ws_handler(t)
    \/ janus_session_create_draw(t)
    \/ janus_session_create_insert(t)
    \/ post_find(t)
    \/ destroy_request(t)
    \/ message_request(t)
    \/ janus_ws_request_completed(t)

EnvelopeNext == \E t \in Threads : EnvelopeStep(t)

\* main() reading the plugins folder
LoaderNext == janus_load_plugin \/ main_start_webserver

\* a connection thread serving a message or a detach request, and the
\* plugin's thread handling a register or a call
TeardownNext ==
    \/ \E t \in Threads : MediaStep(t)
    \/ handler_pop
    \/ handler_unlink
    \/ handler_peer
    \/ handler_reply

\* the paths of requests
UrlNext == janus_ws_handler_url

\* registrations, calls and detaches
TeardownSpec == TeardownInit /\ [][TeardownNext]_vars
\* requests on every URL
UrlSpec == UrlInit /\ [][UrlNext]_vars
\* POSTs with broken envelopes and messages without a body
EnvelopeSpec == EnvelopeInit /\ [][EnvelopeNext]_vars

\* the start of the gateway, for every content of the plugins folder
LoaderSpec == LoaderInit /\ [][LoaderNext]_vars
\* session descriptions, detaches and relayed packets
MediaSpec == MediaInit /\ [][MediaNext]_vars
\* a step of the thread that is inside janus_handle_sdp
SdpWaitStep == janus_handle_sdp_check \/ janus_handle_sdp_sleep

SdpNext ==
    \/ \E t \in Threads : MsgStep(t)
    \/ janus_ice_cb_candidate_gathering_done
    \/ janus_ice_gathering_failed

EventNext ==
    \/ \E t \in Threads : MsgStep(t)
    \/ janus_handle_sdp_call
    \/ janus_handle_sdp_check
    \/ janus_handle_sdp_sleep
    \/ janus_ice_cb_candidate_gathering_done
    \/ janus_ice_gathering_failed

\* the shutdown: long polls, plugin offers and the plugin's idle thread
StopNext ==
    \/ \E t \in Threads : PushStep(t) \/ notif_unlink(t)
    \/ janus_handle_sdp_call
    \/ janus_handle_sdp_check
    \/ janus_handle_sdp_sleep
    \/ janus_ice_cb_candidate_gathering_done
    \/ janus_ice_gathering_failed
    \/ handler_idle
    \/ handler_exit
    \/ janus_handle_signal
    \/ main_stop
    \/ janus_plugin_close

\* one connection: the calls of MHD for a request, then its dispatch on
\* the connection's thread
HttpNext ==
    \/ mhd_first_call
    \/ mhd_next_call
    \/ janus_ws_handler(1)
    \/ janus_session_create_draw(1)
    \/ janus_session_create_insert(1)
    \/ post_find(1)
    \/ get_find(1)
    \/ get_pop(1)
    \/ notif_find(1)
    \/ notif_loop(1)
    \/ janus_ws_request_completed(1)

\* the request of the connection is over: the handler returned with a
\* response queued or with MHD_NO, or the dispatch has answered
RequestOver ==
    \/ conn.pc = "closed"
    \/ conn.pc = "dispatched" /\ pc[1] = "responded"

\* the MHD_queue_response calls made for the request of the connection
ResponsesQueued ==
    conn.queued + (IF conn.pc = "dispatched" /\ pc[1] = "responded"
                   THEN 1 ELSE 0)

\* C36: a POST whose body arrives in chunks is dispatched once, in the call
\* with upload size 0 that follows the last chunk; a call that brings a
\* chunk changes no session, handle, event or plugin state; the text that
\* is parsed is the concatenation of the chunks in arrival order.
C36_ChunkedPostDispatchedOnce ==
    /\ [][conn'.round # conn.round
            => /\ UNCHANGED <<sessions, srec, hrec, psess, nextEv, evs,
                              delivered, pc, req, resp>>
               /\ UNCHANGED pvars]_vars
    /\ [](conn.dispatched <= 1)
    /\ [](conn.method = "POST" /\ conn.pc \in {"dispatch", "dispatched"}
            => /\ conn.todo = <<>>
               /\ conn.round = Len(conn.sent) + 2
               /\ conn.payload = Concat(conn.sent))
    /\ [](conn.method = "POST" /\ conn.dispatched = 1 /\ req[1] # NoReq
            => json_loads(Concat(conn.sent))
                 = [verb |-> req[1].verb, envelope |-> req[1].envelope])
    /\ [](conn.method = "POST" /\ conn.sent # <<>> /\ conn.pc = "open"
            => conn.dispatched = 0)

\* a create request that arrived in two chunks was dispatched and answered
C36_Witness ==
    /\ conn.method = "POST" /\ conn.path = "base"
    /\ conn.sent = <<(<<"c">>), (<<"r">>)>>
    /\ conn.dispatched = 1
    /\ pc[1] = "responded" /\ resp[1].kind = "success"
    /\ sessions # conn.pre

\* C38: the handler queues at most one response for a request, whatever the
\* method and the path; an OPTIONS request and a request on an invalid path
\* get exactly one response and are not dispatched.
C38_OneResponsePerRequest ==
    /\ ResponsesQueued <= 1
    /\ (RequestOver /\ (conn.method = "OPTIONS" \/ conn.path = "invalid"))
           => ResponsesQueued = 1 /\ conn.dispatched = 0

\* C39: a POST on the base path without a body is answered with the
\* MISSING_REQUEST error, and no session is created.
C39_BodylessPostMissingRequest ==
    (/\ RequestOver
     /\ conn.method = "POST" /\ conn.path = "base"
     /\ conn.sent = <<>> /\ conn.todo = <<>>)
        => /\ ResponsesQueued = 1
           /\ conn.pc = "dispatched"
           /\ resp[1] = ErrorResp("MISSING_REQUEST")
           /\ sessions = conn.pre

\* the long polls of one connection at a time, and the plugin's thread
\* pushing events beside it
LockNext ==
    \/ \E t \in Threads : PushStep(t) \/ notif_unlink(t)
    \/ \E h \in HRefs : janus_push_event_enter(h)
    \/ janus_push_event_leave

LockSpec == LockInit /\ [][LockNext]_vars
\* the operations of the videocall plugin on its sessions: the messages its
\* thread handles, the detach of a handle and the media hangup
PeerNext ==
    \/ \E t \in Threads : MediaStep(t)
    \/ handler_pop
    \/ handler_unlink
    \/ handler_peer
    \/ handler_reply
    \/ handler_drop
    \/ \E h \in HRefs : janus_videocall_hangup_media(h)

PeerSpec == PeerInit /\ [][PeerNext]_vars
\* the calls of MHD for the requests of one connection, and their dispatch
HttpSpec == HttpInit /\ [][HttpNext]_vars
\* messages with session descriptions
SdpSpec == SdpInit /\ [][SdpNext]_vars
\* the polling loops and the stop flag
StopSpec == StopInit /\ [][StopNext]_vars
\* plugin events with session descriptions
EventSpec == EventInit /\ [][EventNext]_vars
\* the same, the thread inside janus_handle_sdp running as long as it has a
\* step to take
EventFairSpec == EventSpec /\ WF_vars(SdpWaitStep)
\* each kind of message, the plugin's thread running as long as it has a
\* step to take (while(initialized && !stopping), line 356)
WorkerFairSpec == WorkerInit /\ [][MsgNext]_vars /\ WF_vars(WorkerStep)
\* the long polls, each connection thread being scheduled as long as it can run
PollFairSpec == PollSpec /\ \A t \in Threads : WF_vars(LongPollStep(t))

====
